---------------------------- MODULE Spec2Model ----------------------------
(***************************************************************************)
(* A model of the storage-and-indexing engine of jrnlg                     *)
(* (internal/filestore.go, internal/index.go, internal/serializer.go and   *)
(* the entry parser).                                                      *)
(*                                                                         *)
(* Time.  A time.Time is a record [mo, mi, se, ns]: the month (the         *)
(* directory), the minute, the second and the sub-second part.  All times  *)
(* are UTC; zone abbreviations are not modelled.  The file name keeps the  *)
(* second (buildFilePath), the entry header keeps the minute only          *)
(* (FormatTimestamp: "Monday 2006-01-02 3:04 PM MST").                     *)
(*                                                                         *)
(* Disk.  disk is a partial function from paths to file contents; a path   *)
(* is [tmp, key, sfx]: the ".tmp-" prefix of writeAtomic, the second the   *)
(* name is built from, and the collision suffix (0 is the un-suffixed      *)
(* name).  A content is [text, cut]: a serialized entry and how much of    *)
(* it is on disk ("full", cut in the "body", cut in the "head").          *)
(***************************************************************************)
EXTENDS Integers, Sequences, FiniteSets, TLC

VARIABLES
    disk,       \* the entry directory: path -> content, existing files only
    st,         \* per caller: the SaveEntry/UpdateEntry/DeleteEntry call in flight
    hist,       \* history: the calls that returned nil, in order
    nops,       \* number of calls started so far
    index,      \* FileSystemStorage.index: NoIndex (nil) or the built Index
    indexErr,   \* FileSystemStorage.indexErr
    indexOnce,  \* FileSystemStorage.indexOnce: [done, locked]
    gen,        \* history: [epoch, builds], invalidations so far and builds since the last
    sr,         \* per goroutine: the getOrCreateIndex call in flight
    nsearch,    \* number of getOrCreateIndex calls started so far
    bt,         \* the DeleteEntries / Replace...InEntries call in flight
    config,     \* FileSystemStorage.config: [ParallelParse, MaxParseWorkers, Logger]
    ls,         \* the ListEntries or Search... call in flight
    qry,        \* the executeSearch call of the command line: [pc, args, out]
    bd,         \* the Index.Build call in flight
    rt          \* the SerializeEntry / ParseEntry round trip of one entry

storeVars == <<disk, st, hist, nops>>

cacheVars == <<index, indexErr, indexOnce, gen>>

searchVars == <<sr, nsearch>>

scanVars == <<bt, config, ls, qry, bd, rt>>

vars == <<disk, st, hist, nops, index, indexErr, indexOnce, gen, sr, nsearch, bt,
          config, ls, qry, bd, rt>>

-----------------------------------------------------------------------------
(* Bounds of the model *)

\* MaxCollisionAttempts is 100 in the source (constants.go); the model scales
\* it down so that exhaustion of the suffixes is reached.
MaxCollisionAttempts == 3

\* Calls started in one behaviour of the store specification.
MaxOps == 4

\* getOrCreateIndex calls started in one behaviour of the cache specification.
MaxSearches == 3

\* Calls that change the directory in one behaviour of the cache specification.
MaxCacheOps == 2

\* The largest MaxParseWorkers of a configuration.
MaxWorkers == 2

-----------------------------------------------------------------------------
(* Time *)

T(mo, mi, se, ns) == [mo |-> mo, mi |-> mi, se |-> se, ns |-> ns]

\* time.Time.Before, on UTC instants
Before(a, b) ==
    \/ a.mo < b.mo
    \/ a.mo = b.mo /\ a.mi < b.mi
    \/ a.mo = b.mo /\ a.mi = b.mi /\ a.se < b.se
    \/ a.mo = b.mo /\ a.mi = b.mi /\ a.se = b.se /\ a.ns < b.ns

After(a, b) == Before(b, a)

\* FormatTimestamp followed by parseTimestamp: the header layout has no
\* seconds, so the parsed time is the minute.
FormatTimestamp(ts) == [mo |-> ts.mo, mi |-> ts.mi]

parseTimestamp(h) == T(h.mo, h.mi, 0, 0)

-----------------------------------------------------------------------------
(* Text.  A string is a sequence of characters; the model's alphabet has   *)
(* lower and upper case letters, a digit, "_", "-", " ", ".", "#" and "@". *)

LowerLetters == {"a", "b", "c"}

UpperLetters == {"A", "B", "C"}

Letters == LowerLetters \cup UpperLetters

Digits == {"1"}

\* [a-zA-Z0-9_-] and [a-zA-Z0-9_]
TagChars == Letters \cup Digits \cup {"_", "-"}

MentionChars == Letters \cup Digits \cup {"_"}

ToLowerChar(c) ==
    IF c = "A" THEN "a" ELSE IF c = "B" THEN "b" ELSE IF c = "C" THEN "c" ELSE c

\* strings.ToLower
ToLower(s) == [i \in 1..Len(s) |-> ToLowerChar(s[i])]

\* The last index of the longest run of characters of class cs that starts
\* at i (i - 1 when s[i] is not in cs)
RECURSIVE RunEnd(_, _, _)
RunEnd(s, i, cs) ==
    IF i <= Len(s) /\ s[i] \in cs THEN RunEnd(s, i + 1, cs) ELSE i - 1

RECURSIVE trimLeft(_)
trimLeft(s) == IF s # <<>> /\ s[1] = " " THEN trimLeft(Tail(s)) ELSE s

RECURSIVE trimRight(_)
trimRight(s) ==
    IF s # <<>> /\ s[Len(s)] = " " THEN trimRight(SubSeq(s, 1, Len(s) - 1)) ELSE s

\* strings.TrimSpace
TrimSpace(s) == trimRight(trimLeft(s))

\* patterns.Tag, `#([a-zA-Z][a-zA-Z0-9_-]*)`: the names of all matches from
\* position i on, lower-cased (FindAllStringSubmatch, leftmost, no overlap)
RECURSIVE tagMatches(_, _)
tagMatches(s, i) ==
    IF i > Len(s) THEN {}
    ELSE IF s[i] = "#" /\ i + 1 <= Len(s) /\ s[i + 1] \in Letters
         THEN {ToLower(SubSeq(s, i + 1, RunEnd(s, i + 1, TagChars)))}
                \cup tagMatches(s, RunEnd(s, i + 1, TagChars) + 1)
         ELSE tagMatches(s, i + 1)

\* patterns.Mention, `(?:^|[^a-zA-Z0-9_])@([a-zA-Z][a-zA-Z0-9_]*)`
RECURSIVE mentionMatches(_, _)
mentionMatches(s, i) ==
    IF i > Len(s) THEN {}
    ELSE IF i = 1 /\ s[1] = "@" /\ 2 <= Len(s) /\ s[2] \in Letters
         THEN {ToLower(SubSeq(s, 2, RunEnd(s, 2, MentionChars)))}
                \cup mentionMatches(s, RunEnd(s, 2, MentionChars) + 1)
    ELSE IF /\ s[i] \notin MentionChars
            /\ i + 2 <= Len(s) /\ s[i + 1] = "@" /\ s[i + 2] \in Letters
         THEN {ToLower(SubSeq(s, i + 2, RunEnd(s, i + 2, MentionChars)))}
                \cup mentionMatches(s, RunEnd(s, i + 2, MentionChars) + 1)
         ELSE mentionMatches(s, i + 1)

MaxTagLength == 80

MaxMentionLength == 80

\* extractTags, extractMentions: [ok, names]; the sorted, de-duplicated
\* slice is a set here.  A name longer than the limit is an error.
extractTags(s) ==
    [ok |-> \A t \in tagMatches(s, 1) : Len(t) <= MaxTagLength,
     names |-> tagMatches(s, 1)]

extractMentions(s) ==
    [ok |-> \A m \in mentionMatches(s, 1) : Len(m) <= MaxMentionLength,
     names |-> mentionMatches(s, 1)]

-----------------------------------------------------------------------------
(* Entries and the codec *)

NoEntry == [none |-> TRUE]

\* A JournalEntry: its time and its body.  Tags and Mentions are what
\* extractTags and extractMentions make of the body (SerializeEntry does
\* not write them, ParseEntry derives them).
Entry(ts, body) == [ts |-> ts, body |-> body]

Tags(e) == extractTags(e.body).names

Mentions(e) == extractMentions(e.body).names

SerializeEntry(e) == [hdr |-> FormatTimestamp(e.ts), body |-> e.body]

\* What is on disk of a serialized entry: all of it, or a prefix that ends
\* inside the body (its first character is left), or a prefix that ends in
\* the header.
Content(e, cut) == [text |-> SerializeEntry(e), cut |-> cut]

BodyOnDisk(c) ==
    IF c.cut = "full" THEN c.text.body
    ELSE IF c.cut = "body" THEN SubSeq(c.text.body, 1, 1)
    ELSE <<>>

\* ParseEntry: [ok, entry].  No complete header line, an empty body, or an
\* oversized tag or mention is an error.
ParseEntry(c) ==
    IF c.cut = "head" THEN [ok |-> FALSE, entry |-> NoEntry]
    ELSE IF TrimSpace(BodyOnDisk(c)) = <<>> THEN [ok |-> FALSE, entry |-> NoEntry]
    ELSE IF ~extractTags(TrimSpace(BodyOnDisk(c))).ok THEN [ok |-> FALSE, entry |-> NoEntry]
    ELSE IF ~extractMentions(TrimSpace(BodyOnDisk(c))).ok THEN [ok |-> FALSE, entry |-> NoEntry]
    ELSE [ok |-> TRUE,
          entry |-> Entry(parseTimestamp(c.text.hdr), TrimSpace(BodyOnDisk(c)))]

\* The round trip of an entry through the codec: the entry, its text, and
\* what ParseEntry makes of the text
NoTrip == [pc |-> "idle", e |-> NoEntry, text |-> NoEntry, back |-> NoEntry]

\* markdown := SerializeEntry(entry)
SerializeStep ==
    /\ rt.pc = "entry"
    /\ rt' = [rt EXCEPT !.pc = "text", !.text = Content(rt.e, "full")]
    /\ UNCHANGED <<disk, st, hist, nops, index, indexErr, indexOnce, gen, sr, nsearch,
                   bt, config, ls, qry, bd>>

\* entry, err := ParseEntry(markdown)
ParseStep ==
    /\ rt.pc = "text"
    /\ rt' = [rt EXCEPT !.pc = "done", !.back = ParseEntry(rt.text)]
    /\ UNCHANGED <<disk, st, hist, nops, index, indexErr, indexOnce, gen, sr, nsearch,
                   bt, config, ls, qry, bd>>

-----------------------------------------------------------------------------
(* Paths *)

NoPath == [none |-> TRUE]

buildFilePath(ts) ==
    [tmp |-> FALSE, key |-> [mo |-> ts.mo, mi |-> ts.mi, se |-> ts.se], sfx |-> 0]

\* fmt.Sprintf("%s-%02d%s", baseWithoutExt, i, MarkdownExt)
Suffixed(base, i) == [base EXCEPT !.sfx = i]

\* filepath.Join(dir, ".tmp-"+filepath.Base(filePath))
TmpInPlace(p) == p

TmpPathOf(p) == [p EXCEPT !.tmp = TRUE]

Exists(p) == p \in DOMAIN disk

FileAt(d, p) == IF p \in DOMAIN d THEN d[p] ELSE NoPath

WriteFile(d, p, c) == [q \in (DOMAIN d) \cup {p} |-> IF q = p THEN c ELSE d[q]]

Remove(d, p) == [q \in (DOMAIN d) \ {p} |-> d[q]]

Rename(d, from, to) == Remove(WriteFile(d, to, d[from]), from)

RECURSIVE probeSuffix(_, _, _)
probeSuffix(base, i, limit) ==
    IF i >= limit THEN NoPath
    ELSE IF ~Exists(Suffixed(base, i)) THEN Suffixed(base, i)
    ELSE probeSuffix(base, i + 1, limit)

findAvailablePathNoProbe(base) == base

findAvailablePathOffByOne(base) ==
    IF ~Exists(base) THEN base ELSE probeSuffix(base, 1, MaxCollisionAttempts + 1)

findAvailablePath(base) ==
    IF ~Exists(base) THEN base ELSE probeSuffix(base, 1, MaxCollisionAttempts)

parseFile(p) ==
    IF ~Exists(p) THEN [ok |-> FALSE, entry |-> NoEntry] ELSE ParseEntry(disk[p])

\* GetEntry: the un-suffixed path, then the suffixes in order, stopping at the
\* first candidate that does not exist.
RECURSIVE getEntryFrom(_, _)
getEntryFrom(base, i) ==
    IF i >= MaxCollisionAttempts THEN [ok |-> FALSE, entry |-> NoEntry]
    ELSE IF parseFile(Suffixed(base, i)).ok THEN parseFile(Suffixed(base, i))
    ELSE IF ~Exists(Suffixed(base, i)) THEN [ok |-> FALSE, entry |-> NoEntry]
    ELSE getEntryFrom(base, i + 1)

RECURSIVE getEntryLast(_, _)
getEntryLast(base, i) ==
    IF i >= MaxCollisionAttempts THEN [ok |-> FALSE, entry |-> NoEntry]
    ELSE IF getEntryLast(base, i + 1).ok THEN getEntryLast(base, i + 1)
    ELSE parseFile(Suffixed(base, i))

GetEntryLastMatch(ts) == getEntryLast(buildFilePath(ts), 0)

GetEntry(ts) ==
    IF parseFile(buildFilePath(ts)).ok THEN parseFile(buildFilePath(ts))
    ELSE getEntryFrom(buildFilePath(ts), 1)

\* GetEntryPath: the un-suffixed path when it exists, else the suffixes in
\* order, stopping at the first candidate that does not exist.
RECURSIVE getEntryPathFrom(_, _)
getEntryPathFrom(base, i) ==
    IF i >= MaxCollisionAttempts THEN NoPath
    ELSE IF Exists(Suffixed(base, i)) THEN Suffixed(base, i)
    ELSE NoPath

GetEntryPath(ts) ==
    IF Exists(buildFilePath(ts)) THEN buildFilePath(ts)
    ELSE getEntryPathFrom(buildFilePath(ts), 1)

-----------------------------------------------------------------------------
(* The cached index of a FileSystemStorage *)

NoIndex == [none |-> TRUE]

NoErr == "nil"

FreshOnce == [done |-> FALSE, locked |-> FALSE]

InvalidateIndexKeepOnce ==
    /\ index' = NoIndex
    /\ indexErr' = NoErr
    /\ UNCHANGED indexOnce
    /\ gen' = [epoch |-> gen.epoch + 1, builds |-> 0]

InvalidateIndex ==
    /\ index' = NoIndex
    /\ indexErr' = NoErr
    /\ indexOnce' = FreshOnce
    /\ gen' = [epoch |-> gen.epoch + 1, builds |-> 0]

-----------------------------------------------------------------------------
(* EntryFilter and findFiles *)

NoTime == [none |-> TRUE]

EntryFilter(start, end, limit, offset) ==
    [start |-> start, end |-> end, limit |-> limit, offset |-> offset]

Matches(f, ts) ==
    /\ ~(f.start # NoTime /\ Before(ts, f.start))
    /\ ~(f.end # NoTime /\ After(ts, f.end))

\* isMarkdownFile: the name ends in ".md"; so does the name of a temporary
\* file, ".tmp-<name>.md".
isMarkdownFile(p) == TRUE

\* findFiles: the markdown files of the month directories between the month
\* of StartDate and the month of EndDate (all of them when there is no bound;
\* every month of the model lies in the default range 1900..2100).
findFiles(f) ==
    {p \in DOMAIN disk :
        /\ isMarkdownFile(p)
        /\ f.start # NoTime => p.key.mo >= f.start.mo
        /\ f.end # NoTime => p.key.mo <= f.end.mo}

-----------------------------------------------------------------------------
(* getOrCreateIndex: fs.indexOnce.Do(build), then return fs.index,         *)
(* fs.indexErr.  sync.Once.Do is: if done is not set, lock, and if done is  *)
(* still not set run the function, set done, unlock.                       *)

Searchers == {1, 2}

\* how: the caller came "first", "waited" for a running build, "built" the
\* index, or took the "fast" path of a finished Once (history)
NoSearch == [pc |-> "idle", filter |-> NoTime, files |-> {}, got |-> NoIndex,
             epoch |-> 0, ver |-> 0, how |-> "none"]

\* The entries Index.Build makes of the files: one per file that parses
BuildEntries(files) ==
    {[path |-> p, e |-> parseFile(p).entry] : p \in {q \in files : parseFile(q).ok}}

OnceMustRunAlways == TRUE

\* doSlow: o.done.Load() == 0, under the lock
OnceMustRun == ~indexOnce.done

SearchStart(t, f) ==
    /\ sr[t].pc \in {"idle", "done"}
    /\ nsearch < MaxSearches
    /\ nsearch' = nsearch + 1
    /\ sr' = [sr EXCEPT ![t] = [pc |-> IF indexOnce.done THEN "ret" ELSE "lock",
                                filter |-> f, files |-> {}, got |-> NoIndex,
                                epoch |-> gen.epoch, ver |-> Len(hist),
                                how |-> IF indexOnce.done THEN "fast"
                                        ELSE IF indexOnce.locked THEN "waited"
                                        ELSE "first"]]
    /\ UNCHANGED <<storeVars, cacheVars>>
    /\ UNCHANGED scanVars

OnceLock(t) ==
    /\ sr[t].pc = "lock"
    /\ ~indexOnce.locked
    /\ indexOnce' = [indexOnce EXCEPT !.locked = TRUE]
    /\ sr' = [sr EXCEPT ![t].pc = "check"]
    /\ UNCHANGED <<storeVars, index, indexErr, gen, nsearch>>
    /\ UNCHANGED scanVars

OnceCheck(t) ==
    /\ sr[t].pc = "check"
    /\ IF OnceMustRun
         THEN /\ sr' = [sr EXCEPT ![t].pc = "find", ![t].how = "built"]
              /\ UNCHANGED indexOnce
         ELSE /\ sr' = [sr EXCEPT ![t].pc = "ret"]
              /\ indexOnce' = [indexOnce EXCEPT !.locked = FALSE]
    /\ UNCHANGED <<storeVars, index, indexErr, gen, nsearch>>
    /\ UNCHANGED scanVars

\* files, err := fs.findFiles(filter): err is always nil
BuildFind(t) ==
    /\ sr[t].pc = "find"
    /\ sr' = [sr EXCEPT ![t].pc = "new", ![t].files = findFiles(sr[t].filter)]
    /\ UNCHANGED <<storeVars, cacheVars, nsearch>>
    /\ UNCHANGED scanVars

\* fs.index = NewIndex()
BuildNew(t) ==
    /\ sr[t].pc = "new"
    /\ index' = [id |-> <<gen.epoch, gen.builds + 1>>, full |-> FALSE,
                 ver |-> Len(hist), entries |-> {}]
    /\ gen' = [gen EXCEPT !.builds = gen.builds + 1]
    /\ sr' = [sr EXCEPT ![t].pc = "build"]
    /\ UNCHANGED <<storeVars, indexErr, indexOnce, nsearch>>
    /\ UNCHANGED scanVars

\* fs.indexErr = fs.index.Build(files, ...): Build returns nil.  When an
\* invalidation has set fs.index to nil since NewIndex, the receiver is nil
\* and Build panics at idx.mu.Lock().
BuildRun(t) ==
    /\ sr[t].pc = "build"
    /\ IF index = NoIndex
         THEN /\ sr' = [sr EXCEPT ![t].pc = "panic"]
              /\ UNCHANGED <<index, indexErr>>
         ELSE /\ index' = [index EXCEPT !.full = TRUE,
                                        !.entries = BuildEntries(sr[t].files)]
              /\ indexErr' = NoErr
              /\ sr' = [sr EXCEPT ![t].pc = "finish"]
    /\ UNCHANGED <<storeVars, indexOnce, gen, nsearch>>
    /\ UNCHANGED scanVars

\* the deferred o.done.Store(1) and o.m.Unlock(); the unlock of a mutex that
\* an invalidation has replaced by an unlocked one is a fatal error
OnceDone(t) ==
    /\ sr[t].pc = "finish"
    /\ indexOnce' = [done |-> TRUE, locked |-> FALSE]
    /\ sr' = [sr EXCEPT ![t].pc = IF indexOnce.locked THEN "ret" ELSE "panic"]
    /\ UNCHANGED <<storeVars, index, indexErr, gen, nsearch>>
    /\ UNCHANGED scanVars

\* return fs.index, fs.indexErr
SearchReturn(t) ==
    /\ sr[t].pc = "ret"
    /\ sr' = [sr EXCEPT ![t].pc = "done", ![t].filter = NoTime, ![t].files = {},
                        ![t].got = [index |-> index, err |-> indexErr]]
    /\ UNCHANGED <<storeVars, cacheVars, nsearch>>
    /\ UNCHANGED scanVars

-----------------------------------------------------------------------------
(* SaveEntry, UpdateEntry, DeleteEntry.  A call is a sequence of steps: the  *)
(* file system is touched once per step, and any step may fail.            *)

Callers == {1, 2}

Idle == [pc |-> "idle", op |-> "none", e |-> NoEntry, path |-> NoPath,
         pre |-> <<>>, res |-> "none"]

CanStart(t) == st[t].pc \in {"idle", "done"} /\ nops < MaxOps

Begin(t, op, e, p) ==
    /\ st' = [st EXCEPT ![t] = [pc |-> "write", op |-> op, e |-> e, path |-> p,
                                pre |-> disk, res |-> "none"]]
    /\ nops' = nops + 1

Finish(t, op, e, p, res) ==
    st' = [st EXCEPT ![t] = [pc |-> "done", op |-> op, e |-> e, path |-> p,
                            pre |-> IF st[t].pc \in {"idle", "done"} THEN disk
                                    ELSE st[t].pre,
                            res |-> res]]

Log(op, p, e) == hist' = Append(hist, [op |-> op, path |-> p, e |-> e])

\* SaveEntry up to the call of writeAtomic
SaveEntryBegin(t, e) ==
    /\ CanStart(t)
    /\ LET p == findAvailablePath(buildFilePath(e.ts)) IN
        \/ /\ p = NoPath
           /\ Finish(t, "save", e, NoPath, "collision")
           /\ nops' = nops + 1
        \/ /\ p # NoPath
           /\ Begin(t, "save", e, p)
        \/ /\ p # NoPath          \* ensureDirectories fails
           /\ Finish(t, "save", e, p, "ioerr")
           /\ nops' = nops + 1
    /\ UNCHANGED <<disk, hist, cacheVars, searchVars>>
    /\ UNCHANGED scanVars

\* UpdateEntry up to the call of writeAtomic
UpdateEntryBegin(t, p, e) ==
    /\ CanStart(t)
    /\ \/ /\ ~Exists(p)
          /\ Finish(t, "update", e, p, "notfound")
          /\ nops' = nops + 1
       \/ /\ Exists(p)
          /\ Begin(t, "update", e, p)
    /\ UNCHANGED <<disk, hist, cacheVars, searchVars>>
    /\ UNCHANGED scanVars

\* writeAtomic: os.WriteFile creates or truncates the temporary file ...
WriteTmpOpen(t) ==
    /\ st[t].pc = "write"
    /\ \/ /\ disk' = WriteFile(disk, TmpPathOf(st[t].path), Content(st[t].e, "head"))
          /\ st' = [st EXCEPT ![t].pc = "writing"]
       \/ /\ UNCHANGED disk
          /\ Finish(t, st[t].op, st[t].e, st[t].path, "ioerr")
    /\ UNCHANGED <<hist, nops, cacheVars, searchVars>>
    /\ UNCHANGED scanVars

\* ... and writes the content; a failed write leaves what was written so far.
WriteTmpData(t) ==
    /\ st[t].pc = "writing"
    /\ \/ /\ disk' = WriteFile(disk, TmpPathOf(st[t].path), Content(st[t].e, "full"))
          /\ st' = [st EXCEPT ![t].pc = "rename"]
       \/ /\ disk' = WriteFile(disk, TmpPathOf(st[t].path), Content(st[t].e, "body"))
          /\ Finish(t, st[t].op, st[t].e, st[t].path, "ioerr")
       \/ /\ UNCHANGED disk
          /\ Finish(t, st[t].op, st[t].e, st[t].path, "ioerr")
    /\ UNCHANGED <<hist, nops, cacheVars, searchVars>>
    /\ UNCHANGED scanVars

\* writeAtomic: os.Rename, and os.Remove of the temporary file when it fails.
\* A successful UpdateEntry then invalidates the index.
RenameTmp(t) ==
    /\ st[t].pc = "rename"
    /\ \/ /\ Exists(TmpPathOf(st[t].path))
          /\ disk' = Rename(disk, TmpPathOf(st[t].path), st[t].path)
          /\ Finish(t, st[t].op, st[t].e, st[t].path, "ok")
          /\ Log(st[t].op, st[t].path, st[t].e)
          /\ IF st[t].op = "update" THEN InvalidateIndex ELSE UNCHANGED cacheVars
       \/ /\ disk' = Remove(disk, TmpPathOf(st[t].path))
          /\ Finish(t, st[t].op, st[t].e, st[t].path, "ioerr")
          /\ UNCHANGED <<hist, cacheVars>>
       \/ /\ UNCHANGED disk      \* os.Remove fails as well
          /\ Finish(t, st[t].op, st[t].e, st[t].path, "ioerr")
          /\ UNCHANGED <<hist, cacheVars>>
    /\ UNCHANGED <<nops, searchVars>>
    /\ UNCHANGED scanVars

DeleteEntry(t, p) ==
    /\ CanStart(t)
    /\ nops' = nops + 1
    /\ UNCHANGED searchVars
    /\ \/ /\ ~Exists(p)
          /\ Finish(t, "delete", NoEntry, p, "notfound")
          /\ UNCHANGED <<disk, hist, cacheVars>>
       \/ /\ Exists(p)
          /\ disk' = Remove(disk, p)
          /\ Finish(t, "delete", NoEntry, p, "ok")
          /\ Log("delete", p, NoEntry)
          /\ InvalidateIndex
       \/ /\ Exists(p)           \* os.Remove fails
          /\ Finish(t, "delete", NoEntry, p, "ioerr")
          /\ UNCHANGED <<disk, hist, cacheVars>>
    /\ UNCHANGED scanVars

\* A call of GetEntry: the caller keeps what it returned.
GetEntryCall(t, ts) ==
    /\ st[t].pc \in {"idle", "done"}
    /\ st[t].op # "get"
    /\ Finish(t, "get", GetEntry(ts).entry, buildFilePath(ts),
              IF GetEntry(ts).ok THEN "ok" ELSE "notfound")
    /\ UNCHANGED <<disk, hist, nops, cacheVars, searchVars>>
    /\ UNCHANGED scanVars

\* A call of GetEntryPath: the caller keeps whether it found a path.
GetEntryPathCall(t, ts) ==
    /\ st[t].pc \in {"idle", "done"}
    /\ st[t].op # "path"
    /\ Finish(t, "path", NoEntry, buildFilePath(ts),
              IF GetEntryPath(ts) # NoPath THEN "ok" ELSE "notfound")
    /\ UNCHANGED <<disk, hist, nops, cacheVars, searchVars>>
    /\ UNCHANGED scanVars

-----------------------------------------------------------------------------
(* DeleteEntries and ReplaceTagInEntries / ReplaceMentionInEntries.  A call *)
(* is a loop over the selected files, one file per step.                   *)

\* os.ReadDir order: by month directory, then by file name.  ".tmp-" names
\* come first; of two names of the same second the suffixed one comes first
\* ("-" sorts before ".").
NameRank(p) == IF p.sfx = 0 THEN MaxCollisionAttempts + 1 ELSE p.sfx

PathBefore(p, q) ==
    \/ p.key.mo < q.key.mo
    \/ p.key.mo = q.key.mo /\ p.tmp /\ ~q.tmp
    \/ p.key.mo = q.key.mo /\ p.tmp = q.tmp /\ p.key.mi < q.key.mi
    \/ p.key.mo = q.key.mo /\ p.tmp = q.tmp /\ p.key.mi = q.key.mi
         /\ p.key.se < q.key.se
    \/ p.key.mo = q.key.mo /\ p.tmp = q.tmp /\ p.key.mi = q.key.mi
         /\ p.key.se = q.key.se /\ NameRank(p) < NameRank(q)

RECURSIVE SortPaths(_)
SortPaths(S) ==
    IF S = {} THEN <<>>
    ELSE LET first == CHOOSE p \in S : \A q \in S \ {p} : PathBefore(p, q)
         IN <<first>> \o SortPaths(S \ {first})

\* The orders a slice holding the elements of S can have
Orderings(S) ==
    {s \in [1..Cardinality(S) -> S] : \A i, j \in DOMAIN s : i # j => s[i] # s[j]}

SeqRange(s) == {s[i] : i \in DOMAIN s}

\* The pattern `(?i)<symbol><old>(?:[^a-zA-Z0-9_-]|$)` matches at i
matchAt(s, i, sym, old) ==
    /\ s[i] = sym
    /\ i + Len(old) <= Len(s)
    /\ ToLower(SubSeq(s, i + 1, i + Len(old))) = ToLower(old)
    /\ \/ i + Len(old) = Len(s)
       \/ s[i + Len(old) + 1] \notin TagChars

\* The last index of the match at i: the character after the name is part
\* of the match when there is one
matchEnd(s, i, old) ==
    IF i + Len(old) = Len(s) THEN Len(s) ELSE i + Len(old) + 1

\* The function given to ReplaceAllStringFunc: symbol, the new name, and what
\* follows the leading run of name characters in the match
replaceMatch(m, sym, new) ==
    <<sym>> \o new \o SubSeq(m, RunEnd(m, 2, TagChars) + 1, Len(m))

\* re.ReplaceAllStringFunc(entry.Body, ...), from position i on
RECURSIVE replaceFrom(_, _, _, _, _)
replaceFrom(s, i, sym, old, new) ==
    IF i > Len(s) THEN <<>>
    ELSE IF matchAt(s, i, sym, old)
         THEN replaceMatch(SubSeq(s, i, matchEnd(s, i, old)), sym, new)
                \o replaceFrom(s, matchEnd(s, i, old) + 1, sym, old, new)
         ELSE <<s[i]>> \o replaceFrom(s, i + 1, sym, old, new)

replaceBody(body, sym, old, new) == replaceFrom(body, 1, sym, old, new)

NoBatch == [pc |-> "idle", op |-> "none", dry |-> FALSE, sym |-> "", old |-> <<>>,
            new |-> <<>>, sel |-> {}, todo |-> <<>>, cur |-> NoEntry,
            list |-> <<>>, errs |-> <<>>, pre |-> <<>>, err |-> NoErr]

\* errs = append(errs, fmt.Errorf("failed to ... %s: %w", filePath, err))
appendErrDropped(errs, p, why) == errs

appendErr(errs, p, why) == Append(errs, [path |-> p, why |-> why])

\* return list, errors.Join(errs...) or return list, nil
BatchReturn(list, errs) ==
    bt' = [bt EXCEPT !.pc = "done", !.todo = <<>>, !.cur = NoEntry, !.list = list,
                     !.errs = errs,
                     !.pre = IF bt.pc = "idle" THEN disk ELSE bt.pre,
                     !.err = IF Len(errs) > 0 THEN "joined" ELSE NoErr]

\* DeleteEntries up to the deletion loop: findFiles, then the files that
\* parse and whose timestamp matches the filter (a file that does not parse
\* is skipped)
DeleteEntriesBegin(f) ==
    /\ bt.pc = "idle"
    /\ LET files == SortPaths(findFiles(f))
           match(p) == parseFile(p).ok /\ Matches(f, parseFile(p).entry.ts)
       IN IF Len(files) = 0
            THEN BatchReturn(<<>>, <<>>)
            ELSE bt' = [bt EXCEPT !.pc = "loop", !.op = "delete",
                                  !.todo = SelectSeq(files, match),
                                  !.sel = {p \in findFiles(f) : match(p)},
                                  !.pre = disk]
    /\ UNCHANGED <<storeVars, cacheVars, searchVars>>
    /\ UNCHANGED <<config, ls, qry, bd, rt>>

\* One turn of the deletion loop: os.Remove succeeds or fails
DeleteEntriesStep ==
    /\ bt.pc = "loop" /\ bt.op = "delete" /\ bt.todo # <<>>
    /\ \/ /\ disk' = Remove(disk, Head(bt.todo))
          /\ Log("delete", Head(bt.todo), NoEntry)
          /\ bt' = [bt EXCEPT !.todo = Tail(bt.todo),
                              !.list = Append(bt.list, Head(bt.todo))]
       \/ /\ bt' = [bt EXCEPT !.todo = Tail(bt.todo),
                              !.errs = appendErr(bt.errs, Head(bt.todo), "delete")]
          /\ UNCHANGED <<disk, hist>>
    /\ UNCHANGED <<st, nops, cacheVars, searchVars>>
    /\ UNCHANGED <<config, ls, qry, bd, rt>>

\* After the loop: invalidate the index if anything was deleted, and return
DeleteEntriesEnd ==
    /\ bt.pc = "loop" /\ bt.op = "delete" /\ bt.todo = <<>>
    /\ IF Len(bt.list) > 0 THEN InvalidateIndex ELSE UNCHANGED cacheVars
    /\ BatchReturn(bt.list, bt.errs)
    /\ UNCHANGED <<storeVars, searchVars>>
    /\ UNCHANGED <<config, ls, qry, bd, rt>>

\* getOrCreateIndex(filter) of a caller that runs alone: the cached index
\* when the Once is done, else a build over findFiles(filter)
EmptyFilter == EntryFilter(NoTime, NoTime, 0, 0)

IndexAlone(f) ==
    IF indexOnce.done THEN index
    ELSE [id |-> <<gen.epoch, gen.builds + 1>>, full |-> TRUE, ver |-> Len(hist),
          entries |-> BuildEntries(findFiles(f))]

GetIndexAlone(f) ==
    /\ index' = IndexAlone(f)
    /\ indexErr' = IF indexOnce.done THEN indexErr ELSE NoErr
    /\ indexOnce' = [done |-> TRUE, locked |-> FALSE]
    /\ gen' = IF indexOnce.done THEN gen ELSE [gen EXCEPT !.builds = gen.builds + 1]

\* Index.GetEntriesForTag / GetEntriesForMention: the bucket of the
\* lower-cased name
Bucket(idx, sym, name) ==
    {x.path : x \in {y \in idx.entries :
        ToLower(name) \in (IF sym = "#" THEN Tags(y.e) ELSE Mentions(y.e))}}

\* ReplaceTagInEntries (sym "#") and ReplaceMentionInEntries (sym "@") up to
\* the loop of replaceMetadataInEntries; the bucket is in the order in which
\* the build added the entries
ReplaceBegin(sym, old, new, dry) ==
    /\ bt.pc = "idle"
    /\ GetIndexAlone(EmptyFilter)
    /\ \E paths \in Orderings(Bucket(IndexAlone(EmptyFilter), sym, old)) :
          IF Len(paths) = 0
            THEN BatchReturn(<<>>, <<>>)
            ELSE bt' = [bt EXCEPT !.pc = "loop", !.op = "rename", !.dry = dry,
                                  !.sym = sym, !.old = old, !.new = new,
                                  !.todo = paths, !.sel = SeqRange(paths),
                                  !.pre = disk]
    /\ UNCHANGED <<storeVars, searchVars>>
    /\ UNCHANGED <<config, ls, qry, bd, rt>>

\* the update made whatever the flag
writesAlways(dryRun) == TRUE

\* if !dryRun { fs.UpdateEntry(filePath, entry) }
writes(dryRun) == ~dryRun

\* One turn of the loop up to the write: read and parse the file, replace
\* in the body, serialize and parse again
ReplaceStep ==
    /\ bt.pc = "loop" /\ bt.op = "rename" /\ bt.todo # <<>>
    /\ LET p == Head(bt.todo)
           e == parseFile(p).entry
           body == replaceBody(e.body, bt.sym, bt.old, bt.new)
           again == ParseEntry(Content(Entry(e.ts, body), "full"))
           fail(why) == bt' = [bt EXCEPT !.todo = Tail(bt.todo),
                                         !.errs = appendErr(bt.errs, p, why)]
       IN \/ fail("read")            \* os.ReadFile fails
          \/ IF ~parseFile(p).ok THEN fail("read")
             ELSE IF body = e.body THEN bt' = [bt EXCEPT !.todo = Tail(bt.todo)]
             ELSE IF ~again.ok THEN fail("parse")
             ELSE IF ~writes(bt.dry)
                  THEN bt' = [bt EXCEPT !.todo = Tail(bt.todo),
                                        !.list = Append(bt.list, p)]
                  ELSE bt' = [bt EXCEPT !.pc = "call",
                                        !.cur = [path |-> p, e |-> again.entry]]
    /\ UNCHANGED <<storeVars, cacheVars, searchVars>>
    /\ UNCHANGED <<config, ls, qry, bd, rt>>

\* fs.UpdateEntry(filePath, entry) is called ...
ReplaceCall ==
    /\ bt.pc = "call"
    /\ st[1].pc = "idle"
    /\ UpdateEntryBegin(1, bt.cur.path, bt.cur.e)

\* ... and has returned: the path goes to the list or its error to errs
ReplaceAfterUpdate ==
    /\ bt.pc = "call"
    /\ st[1].pc = "done"
    /\ bt' = [bt EXCEPT !.pc = "loop", !.cur = NoEntry, !.todo = Tail(bt.todo),
                        !.list = IF st[1].res = "ok"
                                   THEN Append(bt.list, bt.cur.path) ELSE bt.list,
                        !.errs = IF st[1].res = "ok" THEN bt.errs
                                   ELSE appendErr(bt.errs, bt.cur.path, "update")]
    /\ st' = [st EXCEPT ![1] = Idle]
    /\ UNCHANGED <<disk, hist, nops, cacheVars, searchVars>>
    /\ UNCHANGED <<config, ls, qry, bd, rt>>

ReplaceEnd ==
    /\ bt.pc = "loop" /\ bt.op = "rename" /\ bt.todo = <<>>
    /\ BatchReturn(bt.list, bt.errs)
    /\ UNCHANGED <<storeVars, cacheVars, searchVars>>
    /\ UNCHANGED <<config, ls, qry, bd, rt>>

-----------------------------------------------------------------------------
(* ListEntries and the index-backed searches.  ListEntries parses with a   *)
(* pool of workers that take paths from the jobs channel; a worker takes a *)
(* path in one step and parses it in another, so workers complete in any   *)
(* order.                                                                  *)

\* DefaultConfig: parallel parsing, runtime.NumCPU() workers, a logger
DefaultConfig == [ParallelParse |-> TRUE, MaxParseWorkers |-> MaxWorkers, Logger |-> TRUE]

NoResult == [entries |-> <<>>, err |-> NoErr, panic |-> FALSE]

NoList == [pc |-> "idle", op |-> "none", filter |-> NoTime, jobs |-> <<>>,
           busy |-> <<>>, entries |-> <<>>, errs |-> <<>>, warned |-> <<>>,
           terms |-> <<>>, found |-> {}, ret |-> NoResult, parsed |-> <<>>,
           first |-> <<>>]

\* The number of workers ListEntries starts
PoolSize == IF ~config.ParallelParse THEN 1 ELSE config.MaxParseWorkers

Pool == 1..PoolSize

\* sort.Slice(entries, less by Timestamp.Before) left out
sortSliceOmitted(s) == {s}

\* sort.Slice(entries, less by Timestamp.Before): the order of the result is
\* that of the timestamps; sort.Slice is not stable, so entries of equal
\* timestamp may come in any order
sortSlice(s) ==
    {r \in Orderings(SeqRange(s)) :
        \A i, j \in DOMAIN r : i < j => ~Before(r[j].e.ts, r[i].e.ts)}

\* entries[start:end] with start = Offset and end from Limit
Page(s, f) ==
    IF f.offset > Len(s) THEN <<>>
    ELSE IF f.limit > 0 /\ f.offset + f.limit < Len(s)
         THEN SubSeq(s, f.offset + 1, f.offset + f.limit)
         ELSE SubSeq(s, f.offset + 1, Len(s))

\* ListEntries up to the start of the workers; the jobs channel has room
\* for every path
ListEntriesBegin(f) ==
    /\ ls.pc = "idle"
    /\ ls' = [ls EXCEPT !.pc = "run", !.op = "list", !.filter = f,
                        !.jobs = SortPaths(findFiles(f)),
                        !.busy = [w \in Pool |-> NoPath]]
    /\ UNCHANGED <<storeVars, cacheVars, searchVars, bt, config, qry, bd, rt>>

\* A second ListEntries call with the date bounds of the one that has
\* returned; first keeps the filter and the result of the earlier call
ListEntriesAgain(f) ==
    /\ ls.pc = "done" /\ ls.op = "list" /\ ls.first = <<>>
    /\ f.start = ls.filter.start /\ f.end = ls.filter.end
    /\ ls' = [NoList EXCEPT !.pc = "run", !.op = "list", !.filter = f,
                            !.jobs = SortPaths(findFiles(f)),
                            !.busy = [w \in Pool |-> NoPath],
                            !.first = <<[filter |-> ls.filter, ret |-> ls.ret]>>]
    /\ UNCHANGED <<storeVars, cacheVars, searchVars, bt, config, qry, bd, rt>>

\* filePath := <-jobs
WorkerTake(w) ==
    /\ ls.pc = "run"
    /\ w \in DOMAIN ls.busy
    /\ ls.busy[w] = NoPath
    /\ ls.jobs # <<>>
    /\ ls' = [ls EXCEPT !.busy[w] = Head(ls.jobs), !.jobs = Tail(ls.jobs)]
    /\ UNCHANGED <<storeVars, cacheVars, searchVars, bt, config, qry, bd, rt>>

\* parseFile, then errChan <- err, or nothing when the timestamp does not
\* match, or entries = append(entries, entry) under the mutex; parsed is the
\* history of the parseFile calls, with the worker that made each
WorkerParse(w) ==
    /\ ls.pc = "run"
    /\ w \in DOMAIN ls.busy
    /\ ls.busy[w] # NoPath
    /\ LET p == ls.busy[w]
           after == [ls EXCEPT !.busy[w] = NoPath,
                               !.parsed = Append(ls.parsed, [path |-> p, by |-> w])]
       IN
         IF ~parseFile(p).ok
           THEN ls' = [after EXCEPT !.errs = Append(ls.errs, p)]
         ELSE IF ~Matches(ls.filter, parseFile(p).entry.ts)
           THEN ls' = after
         ELSE ls' = [after EXCEPT !.entries = Append(ls.entries,
                                                    [path |-> p, e |-> parseFile(p).entry])]
    /\ UNCHANGED <<storeVars, cacheVars, searchVars, bt, config, qry, bd, rt>>

\* After wg.Wait(): the warnings (a call through a nil Logger panics), the
\* sort, offset and limit
ListEntriesEnd ==
    /\ ls.pc = "run" /\ ls.op = "list"
    /\ \A w \in DOMAIN ls.busy : ls.busy[w] = NoPath
    /\ ls.jobs = <<>> \/ DOMAIN ls.busy = {}
    /\ IF ls.errs # <<>> /\ ~config.Logger
         THEN ls' = [ls EXCEPT !.pc = "done", !.jobs = <<>>,
                               !.ret = [NoResult EXCEPT !.panic = TRUE]]
         ELSE \E sorted \in sortSlice(ls.entries) :
                ls' = [ls EXCEPT !.pc = "done", !.jobs = <<>>, !.warned = ls.errs,
                                 !.ret = [NoResult EXCEPT
                                            !.entries = Page(sorted, ls.filter)]]
    /\ UNCHANGED <<storeVars, cacheVars, searchVars, bt, config, qry, bd, rt>>

\* strings.Contains
Contains(s, sub) ==
    \E i \in 0..(Len(s) - Len(sub)) : SubSeq(s, i + 1, i + Len(sub)) = sub

\* Index.tagIndex[name] and Index.mentionIndex[name]: Build puts an entry
\* into the bucket of each of its tags and of each of its mentions
tagIndex(idx, name) == {x \in idx.entries : name \in Tags(x.e)}

mentionIndex(idx, name) == {x \in idx.entries : name \in Mentions(x.e)}

\* hasAllTags / hasAllMentions with the check of the terms left out
hasAllSkipped(names, terms) == TRUE

\* hasAllTags / hasAllMentions: every term is among the entry's names
hasAll(names, terms) == \A i \in DOMAIN terms : terms[i] \in names

\* the terms, lower-cased
normalized(terms) == [i \in DOMAIN terms |-> ToLower(terms[i])]

\* Index.SearchByTags: nothing for no terms; else the entries of the bucket
\* of the first term that have all the terms
SearchByTags(idx, tags) ==
    IF Len(tags) = 0 THEN {}
    ELSE {x \in tagIndex(idx, normalized(tags)[1]) : hasAll(Tags(x.e), normalized(tags))}

SearchByMentions(idx, mentions) ==
    IF Len(mentions) = 0 THEN {}
    ELSE {x \in mentionIndex(idx, normalized(mentions)[1]) :
            hasAll(Mentions(x.e), normalized(mentions))}

\* Index.SearchByKeyword: nothing for ""; else the entries whose lower-cased
\* body in bodyMap contains the lower-cased keyword
SearchByKeyword(idx, keyword) ==
    IF keyword = <<>> THEN {}
    ELSE {x \in idx.entries : Contains(ToLower(x.e.body), ToLower(keyword))}

\* The index search of one kind; a keyword search has one term
IndexSearch(idx, kind, terms) ==
    IF kind = "tags" THEN SearchByTags(idx, terms)
    ELSE IF kind = "mentions" THEN SearchByMentions(idx, terms)
    ELSE SearchByKeyword(idx, terms[1])

\* indexedEntriesToFull before the sort: the indexed entries whose timestamp
\* matches and whose file parses, each read again from its file
FullEntries(found, f) ==
    {[path |-> x.path, e |-> parseFile(x.path).entry] :
        x \in {y \in found : Matches(f, y.e.ts) /\ parseFile(y.path).ok}}

\* SearchByTags, SearchByMentions, SearchByKeyword of a caller that runs
\* alone: getOrCreateIndex, the index search (its result in bucket or map
\* order), indexedEntriesToFull
SearchCall(kind, terms, f) ==
    /\ ls.pc = "idle"
    /\ GetIndexAlone(f)
    /\ \E unsorted \in Orderings(FullEntries(IndexSearch(IndexAlone(f), kind, terms), f)) :
       \E sorted \in sortSlice(unsorted) :
          ls' = [ls EXCEPT !.pc = "done", !.op = kind, !.filter = f,
                           !.terms = terms,
                           !.found = IndexSearch(IndexAlone(f), kind, terms),
                           !.entries = unsorted,
                           !.ret = [NoResult EXCEPT !.entries = Page(sorted, f)]]
    /\ UNCHANGED <<storeVars, searchVars, bt, config, qry, bd, rt>>

-----------------------------------------------------------------------------
(* executeSearch of the command line (internal/cli/search.go): one search  *)
(* per kind of term with the filter of the query, the intersection of the *)
(* results, the reverse sort.  A query without terms is ListEntries.       *)

\* SearchArgs: Tags, Mentions, Keywords, Limit, Offset, FromDate, ToDate,
\* Reverse
SearchArgs(tags, mentions, keywords, limit, offset, from, to, reverse) ==
    [tags |-> tags, mentions |-> mentions, keywords |-> keywords, limit |-> limit,
     offset |-> offset, from |-> from, to |-> to, reverse |-> reverse]

NoQuery == [pc |-> "idle", args |-> NoTime, out |-> <<>>]

\* filter := EntryFilter{Limit, Offset} with StartDate and EndDate
QueryFilter(a) == EntryFilter(a.from, a.to, a.limit, a.offset)

\* The searches executeSearch makes, in order: tags, mentions, each keyword
Criteria(a) ==
    (IF Len(a.tags) > 0 THEN <<[kind |-> "tags", terms |-> a.tags]>> ELSE <<>>)
    \o (IF Len(a.mentions) > 0 THEN <<[kind |-> "mentions", terms |-> a.mentions]>>
        ELSE <<>>)
    \o [i \in DOMAIN a.keywords |-> [kind |-> "keyword", terms |-> <<a.keywords[i]>>]]

\* The lists FileSystemStorage.SearchByTags / SearchByMentions /
\* SearchByKeyword can return for the index idx: found, matched against the
\* filter, read, sorted, cut by Offset and Limit
StorageSearch(idx, c, f) ==
    {Page(sorted, f) :
        sorted \in sortSlice(CHOOSE o \in Orderings(
                      FullEntries(IndexSearch(idx, c.kind, c.terms), f)) : TRUE)}

\* entry.Timestamp.Unix()
Unix(ts) == [mo |-> ts.mo, mi |-> ts.mi, se |-> ts.se]

\* The key of an entry in intersectResults
entryKey(x) == Unix(x.e.ts)

KeysOf(set) == {entryKey(set[i]) : i \in DOMAIN set}

\* candidates[key] after the loop over sets[0]: the last entry with the key
LastWith(set, k) ==
    set[CHOOSE i \in DOMAIN set :
          /\ entryKey(set[i]) = k
          /\ \A j \in DOMAIN set : entryKey(set[j]) = k => j <= i]

\* intersectResults: the lists it can return
intersectResults(sets) ==
    IF Len(sets) = 0 THEN {<<>>}
    ELSE IF Len(sets) = 1 THEN {sets[1]}
    ELSE LET kept == {k \in KeysOf(sets[1]) :
                        \A i \in 2..Len(sets) : k \in KeysOf(sets[i])}
             left == {LastWith(sets[1], k) : k \in kept}
         IN IF left = {} THEN {<<>>}
            ELSE sortSlice(CHOOSE o \in Orderings(left) : TRUE)

\* sort.Slice(finalResults, less by Timestamp.After)
sortReverse(s) ==
    {r \in Orderings(SeqRange(s)) :
        \A i, j \in DOMAIN r : i < j => ~After(r[j].e.ts, r[i].e.ts)}

\* executeSearch of a query with terms, by a caller that runs alone
ExecuteSearch ==
    /\ qry.pc = "idle"
    /\ Len(Criteria(qry.args)) > 0
    /\ GetIndexAlone(QueryFilter(qry.args))
    /\ LET f == QueryFilter(qry.args)
           crit == Criteria(qry.args)
           idx == IndexAlone(f)
       IN \E sets \in {s \in [DOMAIN crit -> UNION {StorageSearch(idx, crit[i], f) :
                                                       i \in DOMAIN crit}] :
                         \A i \in DOMAIN crit : s[i] \in StorageSearch(idx, crit[i], f)} :
          \E merged \in intersectResults(sets) :
          \E final \in (IF qry.args.reverse THEN sortReverse(merged) ELSE {merged}) :
             qry' = [qry EXCEPT !.pc = "done", !.out = final]
    /\ UNCHANGED <<storeVars, searchVars, bt, config, ls, bd, rt>>

\* executeSearch of a query without terms: the call of ListEntries ...
ExecuteList ==
    /\ qry.pc = "idle"
    /\ Len(Criteria(qry.args)) = 0
    /\ ListEntriesBegin(QueryFilter(qry.args))

\* ... and what follows its return
ExecuteListEnd ==
    /\ qry.pc = "idle"
    /\ ls.pc = "done" /\ ls.op = "list" /\ ~ls.ret.panic
    /\ \E final \in (IF qry.args.reverse THEN sortReverse(ls.ret.entries)
                     ELSE {ls.ret.entries}) :
          qry' = [qry EXCEPT !.pc = "done", !.out = final]
    /\ UNCHANGED <<storeVars, cacheVars, searchVars, bt, config, ls, bd, rt>>

-----------------------------------------------------------------------------
(* Index.Build: the worker pool that parses the files and the loop that    *)
(* collects the results into the index.  Both channels have room for every *)
(* file, so no send blocks.                                                *)

NoBuild == [pc |-> "idle", files |-> <<>>, jobs |-> <<>>, busy |-> <<>>,
            results |-> <<>>, closed |-> FALSE, entries |-> <<>>,
            tagIndex |-> <<>>, mentionIndex |-> <<>>, bodyMap |-> <<>>,
            parsed |-> <<>>, maxWorkers |-> 0, ret |-> "none"]

\* the worker count taken as it is given
buildWorkersUnguarded(maxWorkers) == maxWorkers

\* if maxWorkers < 1 { maxWorkers = 1 }
buildWorkers(maxWorkers) == IF maxWorkers < 1 THEN 1 ELSE maxWorkers

\* m[k] of a map, the zero value for a key that is absent
MapGet(m, k) == IF k \in DOMAIN m THEN m[k] ELSE <<>>

\* m[k] = v
MapPut(m, k, v) == [x \in DOMAIN m \cup {k} |-> IF x = k THEN v ELSE m[x]]

\* idx.tagIndex[tag] = append(idx.tagIndex[tag], indexed) for every name
RECURSIVE appendBuckets(_, _, _)
appendBuckets(m, names, p) ==
    IF names = {} THEN m
    ELSE LET n == CHOOSE x \in names : TRUE
         IN appendBuckets(MapPut(m, n, Append(MapGet(m, n), p)), names \ {n}, p)

\* Build up to the close of the jobs channel: the workers are started and
\* every file is sent
IndexBuildBegin(files, maxWorkers) ==
    /\ bd.pc = "idle"
    /\ bd' = [bd EXCEPT !.pc = "run", !.files = files, !.jobs = files,
                        !.maxWorkers = maxWorkers,
                        !.busy = [w \in 1..buildWorkers(maxWorkers) |-> NoPath]]
    /\ UNCHANGED <<storeVars, cacheVars, searchVars, bt, config, ls, qry, rt>>

\* filePath := <-jobs
BuildWorkerTake(w) ==
    /\ bd.pc = "run"
    /\ w \in DOMAIN bd.busy
    /\ bd.busy[w] = NoPath
    /\ bd.jobs # <<>>
    /\ bd' = [bd EXCEPT !.busy[w] = Head(bd.jobs), !.jobs = Tail(bd.jobs)]
    /\ UNCHANGED <<storeVars, cacheVars, searchVars, bt, config, ls, qry, rt>>

\* entry, err := parseFunc(filePath); results <- result{filePath, entry, err}
BuildWorkerParse(w) ==
    /\ bd.pc = "run"
    /\ w \in DOMAIN bd.busy
    /\ bd.busy[w] # NoPath
    /\ bd' = [bd EXCEPT !.busy[w] = NoPath,
                        !.results = Append(bd.results,
                                           [path |-> bd.busy[w],
                                            res |-> parseFile(bd.busy[w])]),
                        !.parsed = Append(bd.parsed, [path |-> bd.busy[w], by |-> w])]
    /\ UNCHANGED <<storeVars, cacheVars, searchVars, bt, config, ls, qry, rt>>

\* wg.Wait(); close(results): every worker has left its loop
BuildWait ==
    /\ bd.pc = "run"
    /\ ~bd.closed
    /\ bd.jobs = <<>>
    /\ \A w \in DOMAIN bd.busy : bd.busy[w] = NoPath
    /\ bd' = [bd EXCEPT !.closed = TRUE]
    /\ UNCHANGED <<storeVars, cacheVars, searchVars, bt, config, ls, qry, rt>>

\* One turn of `for res := range results`: a failed parse is skipped, a
\* parsed entry is appended to the entries, to the bucket of each of its
\* tags and mentions, and its body is stored
BuildCollect ==
    /\ bd.pc = "run"
    /\ bd.results # <<>>
    /\ LET r == Head(bd.results) IN
         IF ~r.res.ok
           THEN bd' = [bd EXCEPT !.results = Tail(bd.results)]
           ELSE bd' = [bd EXCEPT
                  !.results = Tail(bd.results),
                  !.entries = Append(bd.entries, [path |-> r.path, e |-> r.res.entry]),
                  !.bodyMap = MapPut(bd.bodyMap, r.path, r.res.entry.body),
                  !.tagIndex = appendBuckets(bd.tagIndex, Tags(r.res.entry), r.path),
                  !.mentionIndex = appendBuckets(bd.mentionIndex,
                                                 Mentions(r.res.entry), r.path)]
    /\ UNCHANGED <<storeVars, cacheVars, searchVars, bt, config, ls, qry, rt>>

\* The results channel is closed and drained: return nil
BuildReturn ==
    /\ bd.pc = "run"
    /\ bd.closed
    /\ bd.results = <<>>
    /\ bd' = [bd EXCEPT !.pc = "done", !.ret = NoErr]
    /\ UNCHANGED <<storeVars, cacheVars, searchVars, bt, config, ls, qry, rt>>

-----------------------------------------------------------------------------
(* The store specification: one caller, calls one after another.           *)

StoreTimes == {T(1, 0, 0, 0), T(1, 0, 0, 1), T(1, 0, 1, 0)}

\* Two entries of the same second (they differ below the second) and one of
\* the next second.
StoreEntries ==
    {Entry(T(1, 0, 0, 0), <<"a">>), Entry(T(1, 0, 0, 1), <<"b", "c">>),
     Entry(T(1, 0, 1, 0), <<"a">>)}

\* The paths a caller passes to UpdateEntry and DeleteEntry: an entry file
\* that exists, or the un-suffixed name of an entry that does not.
EntryPaths == {p \in DOMAIN disk : ~p.tmp} \cup {buildFilePath(ts) : ts \in StoreTimes}

InitStore ==
    /\ disk = <<>>
    /\ st = [t \in Callers |-> Idle]
    /\ hist = <<>>
    /\ nops = 0
    /\ index = NoIndex
    /\ indexErr = NoErr
    /\ indexOnce = FreshOnce
    /\ gen = [epoch |-> 0, builds |-> 0]
    /\ sr = [t \in Searchers |-> NoSearch]
    /\ nsearch = 0
    /\ bt = NoBatch
    /\ config = DefaultConfig
    /\ ls = NoList
    /\ qry = NoQuery
    /\ bd = NoBuild
    /\ rt = NoTrip

NextStore ==
    \/ \E e \in StoreEntries : SaveEntryBegin(1, e)
    \/ \E p \in EntryPaths : \E e \in StoreEntries :
          /\ buildFilePath(e.ts).key = p.key
          /\ UpdateEntryBegin(1, p, e)
    \/ WriteTmpOpen(1)
    \/ WriteTmpData(1)
    \/ RenameTmp(1)
    \/ \E p \in EntryPaths : DeleteEntry(1, p)
    \/ \E e \in StoreEntries : GetEntryCall(1, e.ts)

SpecStore == InitStore /\ [][NextStore]_vars

-----------------------------------------------------------------------------
(* The cache specification: goroutines call getOrCreateIndex concurrently; *)
(* a call that changes the directory runs while no search is in flight,    *)
(* and a search starts while no such call is in flight.                    *)

CacheEntries == {Entry(T(1, 0, 0, 0), <<"a">>), Entry(T(1, 0, 0, 1), <<"b", "c">>)}

CacheFilters ==
    {EntryFilter(NoTime, NoTime, 0, 0), EntryFilter(T(2, 0, 0, 0), NoTime, 0, 0)}

\* UpdateEntry and DeleteEntry are called with the path of an entry file
CachePaths == {p \in DOMAIN disk : ~p.tmp}

NoSearchInFlight ==
    /\ \A t \in Searchers : sr[t].pc \in {"idle", "done"}
    /\ nops < MaxCacheOps

NoCallInFlight == \A t \in Callers : st[t].pc \in {"idle", "done"}

NextCache ==
    \/ \E e \in CacheEntries : NoSearchInFlight /\ SaveEntryBegin(1, e)
    \/ \E p \in CachePaths : \E e \in CacheEntries :
          /\ NoSearchInFlight
          /\ buildFilePath(e.ts).key = p.key
          /\ UpdateEntryBegin(1, p, e)
    \/ WriteTmpOpen(1)
    \/ WriteTmpData(1)
    \/ RenameTmp(1)
    \/ \E p \in CachePaths : NoSearchInFlight /\ DeleteEntry(1, p)
    \/ \E t \in Searchers : \E f \in CacheFilters :
          /\ NoCallInFlight
          /\ \A u \in Searchers : u < t => sr[u].pc # "idle"
          /\ SearchStart(t, f)
    \/ \E t \in Searchers : OnceLock(t)
    \/ \E t \in Searchers : OnceCheck(t)
    \/ \E t \in Searchers : BuildFind(t)
    \/ \E t \in Searchers : BuildNew(t)
    \/ \E t \in Searchers : BuildRun(t)
    \/ \E t \in Searchers : OnceDone(t)
    \/ \E t \in Searchers : SearchReturn(t)

SpecCache == InitStore /\ [][NextCache]_vars

-----------------------------------------------------------------------------
(* Properties of the cached index *)

Returned(t) == sr[t].pc = "done"

\* C1: between two invalidations the index is built at most once, and every
\* getOrCreateIndex call of that period, whether it came before or after the
\* build finished, returns that one complete index and the same (nil) error.
C1_BuildOnce ==
    /\ gen.builds <= 1
    /\ \A t \in Searchers :
          Returned(t) /\ sr[t].epoch = gen.epoch =>
            /\ sr[t].got = [index |-> index, err |-> indexErr]
            /\ index # NoIndex
            /\ index.full
    /\ \A t, u \in Searchers :
          Returned(t) /\ Returned(u) /\ sr[t].epoch = sr[u].epoch =>
            sr[t].got = sr[u].got

\* One caller arrived while the build was running, another after it finished
C1_Witness ==
    \E t, u \in Searchers :
        /\ Returned(t) /\ Returned(u)
        /\ sr[t].epoch = gen.epoch /\ sr[u].epoch = gen.epoch
        /\ sr[t].how = "waited" /\ sr[u].how = "fast"

\* C2: a search that starts after a successful SaveEntry, UpdateEntry or
\* DeleteEntry is answered from an index built after that change.
C2_FreshAfterMutation ==
    \A t \in Searchers :
        Returned(t) => sr[t].got.index # NoIndex /\ sr[t].got.index.ver >= sr[t].ver

\* The number of the last successful UpdateEntry or DeleteEntry among the
\* first n calls of the history (0: none)
LastWrite(n) ==
    LET W == {i \in 1..n : hist[i].op \in {"update", "delete"}}
    IN  IF W = {} THEN 0 ELSE CHOOSE i \in W : \A j \in W : j <= i

\* C3: a successful UpdateEntry (also the one a rename makes) or DeleteEntry
\* leaves no cached index and a fresh Once, and a getOrCreateIndex call that
\* starts after it returns an index built after it.
C3_InvalidatedAfterWrite ==
    /\ \A t \in Searchers :
          Returned(t) =>
            /\ sr[t].got.index # NoIndex
            /\ sr[t].got.index.ver >= LastWrite(sr[t].ver)
    /\ ( /\ Len(hist) > 0
         /\ hist[Len(hist)].op \in {"update", "delete"}
         /\ \A t \in Searchers : sr[t].pc # "idle" => sr[t].ver < Len(hist) )
       => (index = NoIndex /\ indexOnce = FreshOnce)

\* An index was built and returned, an update followed, and the next call
\* returned another index, built after the update.
C3_Witness ==
    \E t, u \in Searchers :
        /\ Returned(t) /\ Returned(u)
        /\ sr[t].ver > 0 /\ hist[sr[t].ver].op = "update"
        /\ sr[u].ver < sr[t].ver
        /\ sr[t].got.index.ver = sr[t].ver
        /\ sr[u].got.index.id # sr[t].got.index.id

-----------------------------------------------------------------------------
(* Properties of the store *)

StoreKeys == {buildFilePath(e.ts).key : e \in StoreEntries}

BaseOf(k) == [tmp |-> FALSE, key |-> k, sfx |-> 0]

\* The successful saves of one second, in the order they were made
SavesOf(k) == SelectSeq(hist, LAMBDA h : h.op = "save" /\ h.path.key = k)

NoDelete(k) == \A i \in 1..Len(hist) : ~(hist[i].op = "delete" /\ hist[i].path.key = k)

NoUpdate(p) == \A i \in 1..Len(hist) : ~(hist[i].op = "update" /\ hist[i].path = p)

\* The entry files of a directory, without the temporary files
EntryFiles(d) == [p \in {q \in DOMAIN d : ~q.tmp} |-> d[p]]

FreeSuffixes(d, base) ==
    {i \in 0..(MaxCollisionAttempts - 1) : Suffixed(base, i) \notin DOMAIN d}

MinOf(S) == CHOOSE x \in S : \A y \in S : x <= y

\* C4: at every step of SaveEntry and UpdateEntry, also after a failed step,
\* the final path does not exist, or holds all of the previous content, or
\* holds all of the new content; a call that fails leaves it as it was.
C4_NoPartialFinal ==
    /\ \A p \in DOMAIN disk : ~p.tmp => disk[p].cut = "full"
    /\ \A t \in Callers :
          st[t].op \in {"save", "update"} /\ st[t].path # NoPath =>
            /\ FileAt(disk, st[t].path) \in
                 {FileAt(st[t].pre, st[t].path), Content(st[t].e, "full")}
            /\ st[t].res # "ok" =>
                 FileAt(disk, st[t].path) = FileAt(st[t].pre, st[t].path)

\* An update failed while writing: the temporary file is partial and the
\* entry file still holds the previous content.
C4_Witness ==
    \E t \in Callers :
        /\ st[t].op = "update" /\ st[t].pc = "done" /\ st[t].res = "ioerr"
        /\ TmpPathOf(st[t].path) \in DOMAIN disk
        /\ disk[TmpPathOf(st[t].path)].cut = "body"
        /\ st[t].path \in DOMAIN disk
        /\ disk[st[t].path] # Content(st[t].e, "full")

\* C5: the successful saves of one second, with no delete in between, are at
\* the un-suffixed path and at the suffixes 1, 2, ... in order; each file
\* exists and holds the entry saved there (unless updated since).
C5_SavesDistinct ==
    \A k \in StoreKeys :
        NoDelete(k) =>
          \A i \in 1..Len(SavesOf(k)) :
            /\ SavesOf(k)[i].path = Suffixed(BaseOf(k), i - 1)
            /\ SavesOf(k)[i].path \in DOMAIN disk
            /\ NoUpdate(SavesOf(k)[i].path) =>
                 disk[SavesOf(k)[i].path] = Content(SavesOf(k)[i].e, "full")

\* As many saves of one second as there are candidate paths
C5_Witness ==
    \E k \in StoreKeys : NoDelete(k) /\ Len(SavesOf(k)) = MaxCollisionAttempts

\* C6: after saves of one second (and no delete), GetEntry for a timestamp
\* of that second returns the first entry saved, as it parses back from
\* the un-suffixed file.
C6_GetEntryFirst ==
    \A t \in Callers :
        st[t].op = "get" /\ NoDelete(st[t].path.key)
          /\ Len(SavesOf(st[t].path.key)) >= 1 =>
            /\ st[t].res = "ok"
            /\ st[t].e = ParseEntry(disk[BaseOf(st[t].path.key)]).entry
            /\ NoUpdate(BaseOf(st[t].path.key)) =>
                 st[t].e = ParseEntry(Content(SavesOf(st[t].path.key)[1].e, "full")).entry

\* GetEntry after two saves of one second whose entries differ
C6_Witness ==
    \E t \in Callers :
        /\ st[t].op = "get" /\ NoDelete(st[t].path.key)
        /\ Len(SavesOf(st[t].path.key)) >= 2
        /\ SavesOf(st[t].path.key)[1].e.body # SavesOf(st[t].path.key)[2].e.body

-----------------------------------------------------------------------------
(* The batch specification: a directory, then one DeleteEntries or one     *)
(* Replace...InEntries call.                                               *)

\* Files of the directory: "#a", "#A b." and "@a-b #a" are entries with tag
\* a (the last also has the mention a); the fourth file is cut in its header
BatchFiles ==
    [p \in {buildFilePath(T(1, 0, 0, 0)), buildFilePath(T(1, 0, 1, 0)),
            buildFilePath(T(2, 0, 0, 0)), buildFilePath(T(2, 1, 0, 0))} |->
        IF p = buildFilePath(T(1, 0, 0, 0))
          THEN Content(Entry(T(1, 0, 0, 0), <<"#", "a">>), "full")
        ELSE IF p = buildFilePath(T(1, 0, 1, 0))
          THEN Content(Entry(T(1, 0, 1, 0), <<"#", "A", " ", "b", ".">>), "full")
        ELSE IF p = buildFilePath(T(2, 0, 0, 0))
          THEN Content(Entry(T(2, 0, 0, 0),
                             <<"@", "a", "-", "b", " ", "#", "a", " ", "#", "b">>), "full")
        ELSE Content(Entry(T(2, 1, 0, 0), <<"#", "a">>), "head")]

BatchDisks == {[p \in S |-> BatchFiles[p]] : S \in SUBSET DOMAIN BatchFiles}

BatchFilters ==
    {EmptyFilter, EntryFilter(T(1, 0, 0, 0), T(1, 0, 0, 0), 0, 0),
     EntryFilter(T(2, 0, 0, 0), NoTime, 0, 0)}

BatchNames == {<<"a">>, <<"b">>}

InitBatch ==
    /\ disk \in BatchDisks
    /\ st = [t \in Callers |-> Idle]
    /\ hist = <<>>
    /\ nops = 0
    /\ index = NoIndex
    /\ indexErr = NoErr
    /\ indexOnce = FreshOnce
    /\ gen = [epoch |-> 0, builds |-> 0]
    /\ sr = [t \in Searchers |-> NoSearch]
    /\ nsearch = 0
    /\ bt = NoBatch
    /\ config = DefaultConfig
    /\ ls = NoList
    /\ qry = NoQuery
    /\ bd = NoBuild
    /\ rt = NoTrip

NextBatch ==
    \/ \E f \in BatchFilters : DeleteEntriesBegin(f)
    \/ DeleteEntriesStep
    \/ DeleteEntriesEnd
    \/ \E sym \in {"#", "@"} : \E old, new \in BatchNames : \E dry \in BOOLEAN :
          old # new /\ ReplaceBegin(sym, old, new, dry)
    \/ ReplaceStep
    \/ ReplaceCall
    \/ bt.pc = "call" /\ WriteTmpOpen(1)
    \/ bt.pc = "call" /\ WriteTmpData(1)
    \/ bt.pc = "call" /\ RenameTmp(1)
    \/ ReplaceAfterUpdate
    \/ ReplaceEnd

SpecBatch == InitBatch /\ [][NextBatch]_vars

-----------------------------------------------------------------------------
(* Properties of the batch calls *)

\* The entry files whose content differs between two directories
Changed(pre, d) ==
    {p \in (DOMAIN pre) \cup (DOMAIN d) : ~p.tmp /\ FileAt(pre, p) # FileAt(d, p)}

ErrPaths == {bt.errs[i].path : i \in DOMAIN bt.errs}

\* The replacement leaves the body of the file as it was
NothingToReplace(p) ==
    /\ bt.op = "rename"
    /\ ParseEntry(bt.pre[p]).ok
    /\ replaceBody(ParseEntry(bt.pre[p]).entry.body, bt.sym, bt.old, bt.new)
         = ParseEntry(bt.pre[p]).entry.body

C16_DryRunWritesNothing ==
    bt.op = "rename" /\ bt.dry =>
        /\ disk = bt.pre
        /\ st[1] = Idle /\ hist = <<>>
        /\ indexOnce.done /\ index # NoIndex /\ gen = [epoch |-> 0, builds |-> 1]
        /\ bt.pc = "done" =>
              /\ SeqRange(bt.list) \cap ErrPaths = {}
              /\ \A p \in bt.sel \ ErrPaths :
                    p \in SeqRange(bt.list) <=> ~NothingToReplace(p)

\* A dry run has returned a list of two files that an actual run would have
\* rewritten
C16_Witness ==
    /\ bt.pc = "done" /\ bt.op = "rename" /\ bt.dry
    /\ Len(bt.list) >= 2
    /\ \A i \in DOMAIN bt.list : ~NothingToReplace(bt.list[i])

\* The number of matches of patterns.Tag in s from position i on whose name,
\* lower-cased, is name
RECURSIVE tagOccurrences(_, _, _)
tagOccurrences(s, i, name) ==
    IF i > Len(s) THEN 0
    ELSE IF s[i] = "#" /\ i + 1 <= Len(s) /\ s[i + 1] \in Letters
         THEN (IF ToLower(SubSeq(s, i + 1, RunEnd(s, i + 1, TagChars))) = name
                 THEN 1 ELSE 0)
                + tagOccurrences(s, RunEnd(s, i + 1, TagChars) + 1, name)
         ELSE tagOccurrences(s, i + 1, name)

\* C17: when ReplaceTagInEntries(A, B) has returned, every file of its list
\* whose body held both tag A and tag B before the call holds tag B exactly
\* once in its body now.
C17_RenameMerges ==
    bt.pc = "done" /\ bt.op = "rename" /\ bt.sym = "#" /\ ~bt.dry =>
        \A p \in SeqRange(bt.list) :
            {ToLower(bt.old), ToLower(bt.new)} \subseteq Tags(ParseEntry(bt.pre[p]).entry) =>
                /\ parseFile(p).ok
                /\ tagOccurrences(parseFile(p).entry.body, 1, ToLower(bt.new)) = 1

-----------------------------------------------------------------------------
(* The listing specification: a directory and a configuration, then one    *)
(* ListEntries or one search.                                              *)

\* Two entries of the same minute, one of a later minute, and in the next
\* month a file cut in its header
ListFiles ==
    [p \in {buildFilePath(T(1, 0, 0, 0)), buildFilePath(T(1, 0, 1, 0)),
            buildFilePath(T(1, 1, 0, 0)), buildFilePath(T(2, 0, 0, 0))} |->
        IF p = buildFilePath(T(1, 0, 0, 0))
          THEN Content(Entry(T(1, 0, 0, 0), <<"#", "a">>), "full")
        ELSE IF p = buildFilePath(T(1, 0, 1, 0))
          THEN Content(Entry(T(1, 0, 1, 0), <<"b", " ", "@", "c">>), "full")
        ELSE IF p = buildFilePath(T(1, 1, 0, 0))
          THEN Content(Entry(T(1, 1, 0, 0),
                             <<"#", "A", " ", "#", "b", " ", "@", "c", " ", "@", "B">>), "full")
        ELSE Content(Entry(T(2, 0, 0, 0), <<"#", "a">>), "head")]

ListDisks == {[p \in S |-> ListFiles[p]] : S \in SUBSET DOMAIN ListFiles}

ListConfigs ==
    [ParallelParse : BOOLEAN, MaxParseWorkers : 0..MaxWorkers, Logger : BOOLEAN]

ListFilters ==
    {EmptyFilter, EntryFilter(NoTime, NoTime, 1, 1),
     EntryFilter(T(1, 1, 0, 0), NoTime, 0, 0),
     EntryFilter(NoTime, NoTime, 2, 2), EntryFilter(NoTime, NoTime, 0, 4)}

\* Lists of terms: none, one, two in either case, one that nothing carries
SearchTerms ==
    {<<>>, << <<"a">> >>, << <<"C">> >>, << <<"A">>, <<"b">> >>,
     << <<"c">>, <<"b">> >>, << <<"b">>, <<"a">> >>, << <<"c">>, <<"c">> >>}

InitList ==
    /\ disk \in ListDisks
    /\ config \in ListConfigs
    /\ st = [t \in Callers |-> Idle]
    /\ hist = <<>>
    /\ nops = 0
    /\ index = NoIndex
    /\ indexErr = NoErr
    /\ indexOnce = FreshOnce
    /\ gen = [epoch |-> 0, builds |-> 0]
    /\ sr = [t \in Searchers |-> NoSearch]
    /\ nsearch = 0
    /\ bt = NoBatch
    /\ ls = NoList
    /\ qry = NoQuery
    /\ bd = NoBuild
    /\ rt = NoTrip

NextList ==
    \/ \E f \in ListFilters : ListEntriesBegin(f)
    \/ \E w \in 1..MaxWorkers : WorkerTake(w)
    \/ \E w \in 1..MaxWorkers : WorkerParse(w)
    \/ ListEntriesEnd
    \/ \E kind \in {"tags", "mentions", "keyword"} : \E terms \in SearchTerms :
       \E f \in ListFilters :
          /\ kind = "keyword" => Len(terms) = 1
          /\ SearchCall(kind, terms, f)

SpecList == InitList /\ [][NextList]_vars

-----------------------------------------------------------------------------
(* Properties of the listing calls *)

\* The files ListEntries looks at that parse and match the filter, and those
\* that do not parse
Listable(f) ==
    {[path |-> p, e |-> parseFile(p).entry] :
        p \in {q \in findFiles(f) : parseFile(q).ok /\ Matches(f, parseFile(q).entry.ts)}}

Unparseable(f) == {p \in findFiles(f) : ~parseFile(p).ok}

\* C9: ListEntries returns, without failing, the parseable entries that
\* match the filter (all of them, cut to the page of Offset and Limit), and
\* has logged a warning for exactly the files that do not parse.  Stated for
\* a pool of at least one worker: that a pool of no workers parses nothing
\* is the subject of C27.
C9_ListSkipsUnparseable ==
    ls.pc = "done" /\ ls.op = "list" /\ PoolSize >= 1 =>
        /\ ~ls.ret.panic
        /\ ls.ret.err = NoErr
        /\ \E all \in Orderings(Listable(ls.filter)) :
              ls.ret.entries = Page(all, ls.filter)
        /\ SeqRange(ls.warned) = Unparseable(ls.filter)

\* C10: the list ListEntries or a search returns is in ascending order of
\* timestamp, whatever the pool size and the order in which workers finish.
C10_SortedAscending ==
    ls.pc = "done" /\ ~ls.ret.panic =>
        \A i, j \in DOMAIN ls.ret.entries :
            i < j => ~Before(ls.ret.entries[j].e.ts, ls.ret.entries[i].e.ts)

\* Two workers finished out of timestamp order, and both entries are returned
C10_Witness ==
    /\ ls.pc = "done" /\ ls.op = "list" /\ PoolSize = 2
    /\ Len(ls.ret.entries) >= 2
    /\ \E i, j \in DOMAIN ls.entries :
          i < j /\ Before(ls.entries[j].e.ts, ls.entries[i].e.ts)

\* sorted[o : min(o + l, len)], Limit 0 standing for no limit
Slice(sorted, o, l) ==
    IF o > Len(sorted) THEN <<>>
    ELSE LET hi == IF l > 0 /\ o + l < Len(sorted) THEN o + l ELSE Len(sorted)
         IN [i \in 1..(hi - o) |-> sorted[o + i]]

\* The complete ascending lists of the entries that match the date bounds
SortedLists(f) ==
    {s \in Orderings(Listable(f)) :
        \A i, j \in DOMAIN s : i < j => ~Before(s[j].e.ts, s[i].e.ts)}

\* C11: ListEntries with Offset o and Limit l returns, without error,
\* positions o .. min(o + l, len) of a complete ascending list of the entries
\* matching the date bounds (everything from o on when Limit is 0), and the
\* empty list when o is beyond the length.
C11_Pagination ==
    ls.pc = "done" /\ ls.op = "list" =>
        /\ ~ls.ret.panic
        /\ ls.ret.err = NoErr
        /\ \E sorted \in SortedLists(ls.filter) :
              ls.ret.entries = Slice(sorted, ls.filter.offset, ls.filter.limit)

\* The terms of the call, case-folded
FoldedTerms == {ToLower(ls.terms[i]) : i \in DOMAIN ls.terms}

\* C12: SearchByTags(T) finds exactly the indexed entries whose tags include
\* every term of T after case-folding, and nothing when T is empty (a term
\* that no entry carries gives the empty result); SearchByMentions does the
\* same with mentions.
C12_SearchSuperset ==
    /\ ls.pc = "done" /\ ls.op = "tags" =>
          ls.found = {x \in index.entries :
                        ls.terms # <<>> /\ FoldedTerms \subseteq Tags(x.e)}
    /\ ls.pc = "done" /\ ls.op = "mentions" =>
          ls.found = {x \in index.entries :
                        ls.terms # <<>> /\ FoldedTerms \subseteq Mentions(x.e)}

\* A search for two tags, one given in upper case, that finds one of several
\* entries carrying the first tag
C12_Witness ==
    /\ ls.pc = "done" /\ ls.op = "tags"
    /\ Len(ls.terms) = 2
    /\ \E i \in DOMAIN ls.terms : ls.terms[i] # ToLower(ls.terms[i])
    /\ Cardinality(ls.found) = 1
    /\ Cardinality(tagIndex(index, ToLower(ls.terms[1]))) = 2

\* C27: whatever the configured pool size, ListEntries parses every file of
\* its range, and the entries it returns are, before Offset and Limit cut the
\* list, all the entries of the range that parse and match the filter.
C27_EveryPoolSizeParses ==
    ls.pc = "done" /\ ls.op = "list" =>
        /\ {r.path : r \in SeqRange(ls.parsed)} = findFiles(ls.filter)
        /\ ~ls.ret.panic => SeqRange(ls.entries) = Listable(ls.filter)

-----------------------------------------------------------------------------
(* The query specification: a directory and the arguments of one           *)
(* executeSearch (the command line runs with DefaultConfig).               *)

QueryArgs ==
    {SearchArgs(tags, mentions, keywords, limit, offset, from, NoTime, reverse) :
        tags \in {<<>>, << <<"a">> >>, << <<"A">>, <<"b">> >>},
        mentions \in {<<>>, << <<"c">> >>},
        keywords \in {<<>>, << <<"b">> >>, << <<"a">>, <<"C">> >>},
        limit \in {0, 1}, offset \in {0, 1},
        from \in {NoTime, T(1, 0, 0, 0)},
        reverse \in BOOLEAN}

InitQuery ==
    /\ disk \in ListDisks
    /\ config = DefaultConfig
    /\ st = [t \in Callers |-> Idle]
    /\ hist = <<>>
    /\ nops = 0
    /\ index = NoIndex
    /\ indexErr = NoErr
    /\ indexOnce = FreshOnce
    /\ gen = [epoch |-> 0, builds |-> 0]
    /\ sr = [t \in Searchers |-> NoSearch]
    /\ nsearch = 0
    /\ bt = NoBatch
    /\ ls = NoList
    /\ qry \in [pc : {"idle"}, args : QueryArgs, out : {<<>>}]
    /\ bd = NoBuild
    /\ rt = NoTrip

NextQuery ==
    \/ ExecuteSearch
    \/ ExecuteList
    \/ \E w \in 1..MaxWorkers : WorkerTake(w)
    \/ \E w \in 1..MaxWorkers : WorkerParse(w)
    \/ ListEntriesEnd
    \/ ExecuteListEnd

SpecQuery == InitQuery /\ [][NextQuery]_vars

-----------------------------------------------------------------------------
(* Properties of executeSearch *)

HasTerms == Len(Criteria(qry.args)) > 0

\* The entry has every tag and every mention of the query, and its body
\* contains every keyword (terms compared after case-folding)
Satisfies(x, a) ==
    /\ \A i \in DOMAIN a.tags : ToLower(a.tags[i]) \in Tags(x.e)
    /\ \A i \in DOMAIN a.mentions : ToLower(a.mentions[i]) \in Mentions(x.e)
    /\ \A i \in DOMAIN a.keywords :
          Contains(ToLower(x.e.body), ToLower(a.keywords[i]))

\* The entries of the directory within the date bounds that satisfy the query
Matching ==
    {x \in Listable(QueryFilter(qry.args)) : Satisfies(x, qry.args)}

\* C13: a query with terms (taken without Offset and Limit) returns, once
\* each, exactly the entries that satisfy every term: an entry is in the
\* result if and only if it is in every per-criterion set.
C13_IntersectByIdentity ==
    qry.pc = "done" /\ HasTerms /\ qry.args.limit = 0 /\ qry.args.offset = 0 =>
        /\ SeqRange(qry.out) = Matching
        /\ Len(qry.out) = Cardinality(Matching)

\* No two entries of the directory have the same timestamp
DistinctTimes ==
    \A x, y \in Listable(EmptyFilter) : x # y => x.e.ts # y.e.ts

\* C14: the output of a query with terms is positions Offset ..
\* Offset + Limit of the complete intersection in ascending order of
\* timestamp, or in descending order when reverse is requested.  Stated for
\* directories without equal timestamps: what intersectResults makes of
\* those is the subject of C13.
C14_SortReversePaginate ==
    qry.pc = "done" /\ HasTerms /\ DistinctTimes =>
        \E all \in Orderings(Matching) :
            /\ \A i, j \in DOMAIN all :
                  i < j => IF qry.args.reverse
                             THEN After(all[i].e.ts, all[j].e.ts)
                             ELSE Before(all[i].e.ts, all[j].e.ts)
            /\ qry.out = Slice(all, qry.args.offset, qry.args.limit)

-----------------------------------------------------------------------------
(* The worker pool specification: one ListEntries call or one Index.Build  *)
(* call over a directory, with every interleaving of its workers.          *)

\* The worker counts Build is called with
BuildCounts == -1..MaxWorkers

InitPool ==
    /\ disk \in ListDisks
    /\ config \in ListConfigs
    /\ st = [t \in Callers |-> Idle]
    /\ hist = <<>>
    /\ nops = 0
    /\ index = NoIndex
    /\ indexErr = NoErr
    /\ indexOnce = FreshOnce
    /\ gen = [epoch |-> 0, builds |-> 0]
    /\ sr = [t \in Searchers |-> NoSearch]
    /\ nsearch = 0
    /\ bt = NoBatch
    /\ ls = NoList
    /\ qry = NoQuery
    /\ bd = NoBuild
    /\ rt = NoTrip

NextPool ==
    \/ \E f \in ListFilters : bd.pc = "idle" /\ ListEntriesBegin(f)
    \/ \E w \in 1..MaxWorkers : WorkerTake(w)
    \/ \E w \in 1..MaxWorkers : WorkerParse(w)
    \/ ListEntriesEnd
    \/ \E f \in ListFilters : \E n \in BuildCounts :
          ls.pc = "idle" /\ IndexBuildBegin(SortPaths(findFiles(f)), n)
    \/ \E w \in 1..MaxWorkers : BuildWorkerTake(w)
    \/ \E w \in 1..MaxWorkers : BuildWorkerParse(w)
    \/ BuildWait
    \/ BuildCollect
    \/ BuildReturn

SpecPool == InitPool /\ [][NextPool]_vars

\* The files of a Build call that parse
Parsed == {p \in SeqRange(bd.files) : parseFile(p).ok}

\* s holds every element of S once and nothing else
HoldsOnce(s, S) == SeqRange(s) = S /\ Len(s) = Cardinality(S)

\* C15: Build runs max(1, workerCount) workers and, whatever the worker count
\* and the interleaving, returns nil with an index that holds one entry for
\* each file that parsed and none for the others: the entry is once in the
\* bucket of each of its tags and mentions, no bucket holds anything else,
\* and the body map holds the body of exactly the parsed files.
C15_BuildIndex ==
    /\ bd.pc # "idle" =>
          DOMAIN bd.busy = 1..(IF bd.maxWorkers > 1 THEN bd.maxWorkers ELSE 1)
    /\ bd.pc = "done" =>
          /\ bd.ret = NoErr
          /\ HoldsOnce(bd.entries, BuildEntries(SeqRange(bd.files)))
          /\ DOMAIN bd.tagIndex = UNION {Tags(parseFile(p).entry) : p \in Parsed}
          /\ \A n \in DOMAIN bd.tagIndex :
                HoldsOnce(bd.tagIndex[n], {p \in Parsed : n \in Tags(parseFile(p).entry)})
          /\ DOMAIN bd.mentionIndex = UNION {Mentions(parseFile(p).entry) : p \in Parsed}
          /\ \A n \in DOMAIN bd.mentionIndex :
                HoldsOnce(bd.mentionIndex[n],
                          {p \in Parsed : n \in Mentions(parseFile(p).entry)})
          /\ DOMAIN bd.bodyMap = Parsed
          /\ \A p \in Parsed : bd.bodyMap[p] = parseFile(p).entry.body

\* A Build with two workers that both parsed has returned an index with a
\* bucket of two entries, from a list that also held a file that does not
\* parse
C15_Witness ==
    /\ bd.pc = "done"
    /\ SeqRange(bd.files) # Parsed
    /\ Cardinality({r.by : r \in SeqRange(bd.parsed)}) >= 2
    /\ \E n \in DOMAIN bd.tagIndex : Len(bd.tagIndex[n]) >= 2

-----------------------------------------------------------------------------
(* Further properties of the store calls *)

\* C18: when no SaveEntry or UpdateEntry is in flight, whether the last one
\* succeeded or failed, the directory holds no temporary file.
C18_NoTmpLeft ==
    (\A t \in Callers : st[t].pc \in {"idle", "done"}) =>
        \A p \in DOMAIN disk : ~p.tmp

\* How many times path p was parsed, by the history of a call
TimesParsed(parsed, p) == Cardinality({i \in DOMAIN parsed : parsed[i].path = p})

\* C20: when ListEntries has sorted, paginated and returned, and when
\* Index.Build has returned, no worker of the call holds a file, and every
\* file the call enqueued was parsed once, by one worker.
C20_JoinBeforeReturn ==
    /\ ls.pc = "done" /\ ls.op = "list" =>
          /\ \A w \in DOMAIN ls.busy : ls.busy[w] = NoPath
          /\ \A p \in findFiles(ls.filter) : TimesParsed(ls.parsed, p) = 1
    /\ bd.pc = "done" =>
          /\ \A w \in DOMAIN bd.busy : bd.busy[w] = NoPath
          /\ \A p \in SeqRange(bd.files) : TimesParsed(bd.parsed, p) = 1

\* A step of the ListEntries call in flight, and one of the Build call
ListStep ==
    \/ \E w \in 1..MaxWorkers : WorkerTake(w)
    \/ \E w \in 1..MaxWorkers : WorkerParse(w)
    \/ ListEntriesEnd

BuildStep ==
    \/ \E w \in 1..MaxWorkers : BuildWorkerTake(w)
    \/ \E w \in 1..MaxWorkers : BuildWorkerParse(w)
    \/ BuildWait
    \/ BuildCollect
    \/ BuildReturn

\* C21: a ListEntries or Build call in flight can always take a step (the
\* pool is never stuck on its channels), and when the call is over it has
\* returned a result or an error, not panicked, no worker holds a file and
\* the result channel is closed and empty.
C21_RunsToCompletion ==
    /\ ls.pc = "run" => ENABLED ListStep
    /\ bd.pc = "run" => ENABLED BuildStep
    /\ ls.pc = "done" /\ ls.op = "list" =>
          /\ ~ls.ret.panic
          /\ \A w \in DOMAIN ls.busy : ls.busy[w] = NoPath
    /\ bd.pc = "done" =>
          /\ bd.ret = NoErr
          /\ bd.closed /\ bd.results = <<>> /\ bd.jobs = <<>>
          /\ \A w \in DOMAIN bd.busy : bd.busy[w] = NoPath

-----------------------------------------------------------------------------
(* The codec specification: one entry, serialized and parsed again.        *)

MaxBodyLen == 3

\* The characters of the bodies: letters of both cases, the two symbols, a
\* space and a hyphen
CodecChars == {"a", "A", "#", "@", " ", "-"}

CodecTimes == {T(1, mi, se, ns) : mi \in 0..1, se \in 0..1, ns \in 0..1}

CodecBodies == UNION {[1..n -> CodecChars] : n \in 0..MaxBodyLen}

InitCodec ==
    /\ disk = <<>>
    /\ st = [t \in Callers |-> Idle]
    /\ hist = <<>>
    /\ nops = 0
    /\ index = NoIndex
    /\ indexErr = NoErr
    /\ indexOnce = FreshOnce
    /\ gen = [epoch |-> 0, builds |-> 0]
    /\ sr = [t \in Searchers |-> NoSearch]
    /\ nsearch = 0
    /\ bt = NoBatch
    /\ config = DefaultConfig
    /\ ls = NoList
    /\ qry = NoQuery
    /\ bd = NoBuild
    /\ \E ts \in CodecTimes : \E body \in CodecBodies :
          rt = [NoTrip EXCEPT !.pc = "entry", !.e = Entry(ts, body)]

NextCodec ==
    \/ SerializeStep
    \/ ParseStep

SpecCodec == InitCodec /\ [][NextCodec]_vars

\* An entry ParseEntry accepts the text of: its body is not blank and no tag
\* or mention is too long
ValidEntry(e) == ParseEntry(Content(e, "full")).ok

\* C19: an entry that is valid comes back from ParseEntry(SerializeEntry(e))
\* with the same Timestamp, Tags, Mentions and Body.
C19_RoundTrip ==
    rt.pc = "done" /\ ValidEntry(rt.e) =>
        /\ rt.back.ok
        /\ rt.back.entry.ts = rt.e.ts
        /\ Tags(rt.back.entry) = Tags(rt.e)
        /\ Mentions(rt.back.entry) = Mentions(rt.e)
        /\ rt.back.entry.body = rt.e.body

\* The position in the history of the last successful save at path p (0
\* when there is none)
LastSaveAt(p) ==
    LET S == {i \in DOMAIN hist : hist[i].op = "save" /\ hist[i].path = p}
    IN IF S = {} THEN 0 ELSE CHOOSE i \in S : \A j \in S : j <= i

\* C22: among the entry files that exist for one second, the order of the
\* paths (un-suffixed, -01, -02, ...) is the order in which the entries they
\* hold were saved.
C22_SaveOrder ==
    \A p, q \in DOMAIN disk :
        ~p.tmp /\ ~q.tmp /\ p.key = q.key /\ p.sfx < q.sfx =>
            LastSaveAt(p) < LastSaveAt(q)

-----------------------------------------------------------------------------
(* Further properties of the cached index *)

\* C23: a search that is about to return, with no change of the directory
\* since the cached index was built, searches every entry of its own date
\* range: each file of the range that parses is in the index the call gets,
\* and a keyword search for its body finds it.
C23_IndexCoversRange ==
    \A t \in Searchers :
        /\ sr[t].pc = "ret"
        /\ index # NoIndex /\ index.ver = Len(hist)
        /\ NoCallInFlight
        /\ \A p \in DOMAIN disk : ~p.tmp
        => \A x \in BuildEntries(findFiles(sr[t].filter)) :
              /\ x \in index.entries
              /\ x \in IndexSearch(index, "keyword", <<x.e.body>>)

-----------------------------------------------------------------------------
(* The race specification: getOrCreateIndex calls of two goroutines while  *)
(* a third deletes entries, each delete ending with InvalidateIndex.       *)
(* InvalidateIndex takes fs.mu, getOrCreateIndex takes no lock, so the     *)
(* invalidation can fall between any two steps of a call.                  *)

RaceFiles ==
    [p \in {buildFilePath(T(1, 0, 0, 0)), buildFilePath(T(2, 0, 0, 0))} |->
        IF p = buildFilePath(T(1, 0, 0, 0))
          THEN Content(Entry(T(1, 0, 0, 0), <<"#", "a">>), "full")
          ELSE Content(Entry(T(2, 0, 0, 0), <<"b">>), "full")]

InitRace ==
    /\ disk = RaceFiles
    /\ st = [t \in Callers |-> Idle]
    /\ hist = <<>>
    /\ nops = 0
    /\ index = NoIndex
    /\ indexErr = NoErr
    /\ indexOnce = FreshOnce
    /\ gen = [epoch |-> 0, builds |-> 0]
    /\ sr = [t \in Searchers |-> NoSearch]
    /\ nsearch = 0
    /\ bt = NoBatch
    /\ config = DefaultConfig
    /\ ls = NoList
    /\ qry = NoQuery
    /\ bd = NoBuild
    /\ rt = NoTrip

NextRace ==
    \/ \E p \in DOMAIN RaceFiles : nops < MaxCacheOps /\ DeleteEntry(1, p)
    \/ \E t \in Searchers : \E f \in CacheFilters : SearchStart(t, f)
    \/ \E t \in Searchers : OnceLock(t)
    \/ \E t \in Searchers : OnceCheck(t)
    \/ \E t \in Searchers : BuildFind(t)
    \/ \E t \in Searchers : BuildNew(t)
    \/ \E t \in Searchers : BuildRun(t)
    \/ \E t \in Searchers : OnceDone(t)
    \/ \E t \in Searchers : SearchReturn(t)

SpecRace == InitRace /\ [][NextRace]_vars

\* C24: whatever a concurrent invalidation does, no getOrCreateIndex call
\* panics (a build on a cleared index reference, an unlock of a replaced
\* mutex), and a call that has returned has a completely built index or an
\* error.
C24_IndexOrError ==
    \A t \in Searchers :
        /\ sr[t].pc # "panic"
        /\ Returned(t) =>
              \/ sr[t].got.err # NoErr
              \/ sr[t].got.index # NoIndex /\ sr[t].got.index.full

-----------------------------------------------------------------------------
(* The concurrent save specification: two goroutines call SaveEntry with   *)
(* entries of one second; the steps of the two calls interleave.           *)

NextSaves ==
    \/ \E t \in Callers : \E e \in CacheEntries : SaveEntryBegin(t, e)
    \/ \E t \in Callers : WriteTmpOpen(t)
    \/ \E t \in Callers : WriteTmpData(t)
    \/ \E t \in Callers : RenameTmp(t)

SpecSaves == InitStore /\ [][NextSaves]_vars

\* C25: every SaveEntry that returned nil has its own entry file: the files
\* of the successful saves are distinct, and each holds the entry that was
\* saved there.
C25_ConcurrentSavesDistinct ==
    /\ \A i, j \in DOMAIN hist : i # j => hist[i].path # hist[j].path
    /\ \A i \in DOMAIN hist :
          /\ hist[i].path \in DOMAIN disk
          /\ disk[hist[i].path] = Content(hist[i].e, "full")

-----------------------------------------------------------------------------
(* The leftover specification: saves by one goroutine, any step of which   *)
(* may fail, and one ListEntries or search by another, started at any      *)
(* point of a save or after it.                                            *)

NextLeftover ==
    \/ \E e \in CacheEntries : ls.pc = "idle" /\ SaveEntryBegin(1, e)
    \/ WriteTmpOpen(1)
    \/ WriteTmpData(1)
    \/ RenameTmp(1)
    \/ ListEntriesBegin(EmptyFilter)
    \/ \E w \in 1..MaxWorkers : WorkerTake(w)
    \/ \E w \in 1..MaxWorkers : WorkerParse(w)
    \/ ListEntriesEnd
    \/ SearchCall("keyword", <<<<"a">>>>, EmptyFilter)

SpecLeftover == InitStore /\ [][NextLeftover]_vars

\* C26: no entry that ListEntries returns and no entry of the index comes
\* from a temporary file.
C26_NoTmpReported ==
    /\ ls.pc = "done" => \A i \in DOMAIN ls.ret.entries : ~ls.ret.entries[i].path.tmp
    /\ index # NoIndex => \A x \in index.entries : ~x.path.tmp

-----------------------------------------------------------------------------
(* The lookup specification: a directory as saves and deletes of colliding *)
(* entries leave it, then deletes and lookups by timestamp.                *)

LookupTimes == {T(1, 0, 0, 0), T(1, 0, 1, 0)}

\* Every candidate path of the two seconds, each holding an entry of its
\* second
LookupFiles ==
    [p \in {Suffixed(buildFilePath(ts), i) :
                ts \in LookupTimes, i \in 0..(MaxCollisionAttempts - 1)} |->
        Content(Entry(T(p.key.mo, p.key.mi, p.key.se, p.sfx),
                      IF p.sfx = 0 THEN <<"a">> ELSE <<"b", "c">>), "full")]

LookupDisks == {[p \in S |-> LookupFiles[p]] : S \in SUBSET DOMAIN LookupFiles}

InitLookup ==
    /\ disk \in LookupDisks
    /\ st = [t \in Callers |-> Idle]
    /\ hist = <<>>
    /\ nops = 0
    /\ index = NoIndex
    /\ indexErr = NoErr
    /\ indexOnce = FreshOnce
    /\ gen = [epoch |-> 0, builds |-> 0]
    /\ sr = [t \in Searchers |-> NoSearch]
    /\ nsearch = 0
    /\ bt = NoBatch
    /\ config = DefaultConfig
    /\ ls = NoList
    /\ qry = NoQuery
    /\ bd = NoBuild
    /\ rt = NoTrip

NextLookup ==
    \/ \E p \in DOMAIN disk : nops < MaxCacheOps /\ DeleteEntry(1, p)
    \/ \E ts \in LookupTimes : GetEntryCall(1, ts)
    \/ \E ts \in LookupTimes : GetEntryPathCall(1, ts)

SpecLookup == InitLookup /\ [][NextLookup]_vars

\* C28: a GetEntry or GetEntryPath call for a timestamp finds an entry
\* whenever some candidate path of that timestamp holds an entry that parses.
C28_ReachableByTimestamp ==
    \A t \in Callers :
        /\ st[t].pc = "done" /\ st[t].op \in {"get", "path"}
        /\ \E i \in 0..(MaxCollisionAttempts - 1) :
              /\ Suffixed(st[t].path, i) \in DOMAIN st[t].pre
              /\ ParseEntry(st[t].pre[Suffixed(st[t].path, i)]).ok
        => st[t].res = "ok"

-----------------------------------------------------------------------------
(* The repeated listing: a directory and a configuration, then two         *)
(* ListEntries calls with the same date bounds.                            *)

\* Pages of one entry and the whole list
PageFilters ==
    {EmptyFilter, EntryFilter(NoTime, NoTime, 1, 0), EntryFilter(NoTime, NoTime, 1, 1)}

NextRepeat ==
    \/ \E f \in PageFilters : ListEntriesBegin(f)
    \/ \E f \in PageFilters : ListEntriesAgain(f)
    \/ \E w \in 1..MaxWorkers : WorkerTake(w)
    \/ \E w \in 1..MaxWorkers : WorkerParse(w)
    \/ ListEntriesEnd

SpecRepeat == InitList /\ [][NextRepeat]_vars

\* C29: two ListEntries calls over the same files with the same date bounds
\* return pages of one and the same sequence, also when entries have equal
\* timestamps: the same list for the same page, and for different pages of
\* one entry different entries.
C29_SameSequenceEveryCall ==
    ls.pc = "done" /\ ls.op = "list" /\ ls.first # <<>>
    /\ ~ls.ret.panic /\ ~ls.first[1].ret.panic
    => \E all \in Orderings(SeqRange(ls.entries)) :
          /\ ls.ret.entries = Page(all, ls.filter)
          /\ ls.first[1].ret.entries = Page(all, ls.first[1].filter)

-----------------------------------------------------------------------------
(* Further properties of the batch calls *)

\* The tags (sym "#") or the mentions (sym "@") of an entry
Carried(e, sym) == IF sym = "#" THEN Tags(e) ELSE Mentions(e)

\* C30: when a rename of tag or mention A to B that is not a dry run has
\* returned without an error, no entry carries A, every entry that carried A
\* carries B, and the other tags and mentions of every entry are as before.
C30_RenameComplete ==
    bt.pc = "done" /\ bt.op = "rename" /\ ~bt.dry /\ bt.err = NoErr =>
        \A p \in DOMAIN bt.pre :
            ParseEntry(bt.pre[p]).ok =>
                LET before == ParseEntry(bt.pre[p]).entry
                    after == parseFile(p).entry
                    A == ToLower(bt.old)
                    B == ToLower(bt.new)
                    other == IF bt.sym = "#" THEN "@" ELSE "#"
                IN /\ parseFile(p).ok
                   /\ A \notin Carried(after, bt.sym)
                   /\ A \in Carried(before, bt.sym) => B \in Carried(after, bt.sym)
                   /\ Carried(after, bt.sym) \ {A, B} = Carried(before, bt.sym) \ {A, B}
                   /\ B \in Carried(before, bt.sym) => B \in Carried(after, bt.sym)
                   /\ Carried(after, other) = Carried(before, other)

=============================================================================
